---- MODULE Spec2Model ----
(***************************************************************************)
(* Chunk-tag encoding engine of seqscore: label codec, transition tables,  *)
(* validation, repair, decoding and encoding for the schemes IO, IOB, BIO  *)
(* and the BIOES family (BIOES, BILOU, BMES, BMEOW).                       *)
(*                                                                         *)
(* A label is a sequence of one-character strings (<<"B","-","X">> is the  *)
(* label B-X), so that split_label and join_label do real work.  Python's  *)
(* None is the value None below; the empty string is <<>>.                 *)
(***************************************************************************)
EXTENDS Integers, Sequences, FiniteSets, TLC

\* ------------------------------------------------------------------ bounds
\* Longest label sequence / largest sequence_length explored.
MaxLen == 3

\* Longest label sequence handed to the calls that run at the same time.
ConcLen == 2

\* Most lines of a file handed to the ingester.
MaxLines == 4

\* ------------------------------------------------------- values and results
\* Python's None (a sequence that is no character string).
None == <<"None">>

\* Python truthiness of an Optional[str].
Truthy(s) == s /= None /\ s /= <<>>

Ok(v) == [exc |-> "none", val |-> v]
Raise(e) == [exc |-> e, val |-> <<>>]

\* Python's None where a repair method name (a plain string) is expected.
NoMethod == "None"

MethodTruthy(m) == m /= NoMethod /\ m /= ""

REPAIR_CONLL == "conlleval"
REPAIR_DISCARD == "discard"
REPAIR_NONE == "none"
SUPPORTED_REPAIR_METHODS == {REPAIR_CONLL, REPAIR_DISCARD, REPAIR_NONE}

\* ----------------------------------------------------------------- dialects
BIOESDialect ==
  [label_delim |-> "-", begin |-> <<"B">>, inside |-> <<"I">>,
   outside |-> <<"O">>, end |-> <<"E">>, single |-> <<"S">>]

BILOUDialect == [BIOESDialect EXCEPT !.end = <<"L">>, !.single = <<"U">>]

BMESDialect == [BIOESDialect EXCEPT !.inside = <<"M">>]

\* A BMEOW dialect that keeps the single symbol of BMES.
BMEOWDialect_SingleS == BMESDialect

BMEOWDialect == [BMESDialect EXCEPT !.single = <<"W">>]

\* The registry: scheme name -> (state machine class, dialect).
EncodingNames == {"BIO", "BIOES", "BILOU", "BMES", "BMEOW", "IO", "IOB"}

EncodingClass(name) ==
  CASE name = "BIO" -> "BIO"
    [] name = "IO" -> "IO"
    [] name = "IOB" -> "IOB"
    [] OTHER -> "BIOES"

DialectOf(name) ==
  CASE name = "BILOU" -> BILOUDialect
    [] name = "BMES" -> BMESDialect
    [] name = "BMEOW" -> BMEOWDialect
    [] OTHER -> BIOESDialect

\* -------------------------------------------------------------- label codec
\* Index of the last delimiter in label at or after i, 0 if there is none.
FirstDelim_Last(label, delim, i) ==
  LET at == {k \in i..Len(label) : label[k] = delim}
  IN IF at = {} THEN 0 ELSE CHOOSE k \in at : \A j \in at : j <= k

\* Index of the first delimiter in label, 0 if there is none.
RECURSIVE FirstDelim(_, _, _)
FirstDelim(label, delim, i) ==
  IF i > Len(label) THEN 0
  ELSE IF label[i] = delim THEN i
  ELSE FirstDelim(label, delim, i + 1)

\* A split_label that accepts every label with a delimiter.
SplitLabel_NoOutsideCheck(name, label) ==
  LET d == DialectOf(name)
      k == FirstDelim(label, d.label_delim, 1)
  IN IF k = 0
     THEN IF label /= d.outside
          THEN Raise("EncodingError")
          ELSE Ok([state |-> label, type |-> None])
     ELSE Ok([state |-> SubSeq(label, 1, k - 1),
              type |-> SubSeq(label, k + 1, Len(label))])

\* split_label: (state, entity_type) or EncodingError.
SplitLabel(name, label) ==
  LET d == DialectOf(name)
      k == FirstDelim(label, d.label_delim, 1)
  IN IF k = 0
     THEN IF label /= d.outside
          THEN Raise("EncodingError")
          ELSE Ok([state |-> label, type |-> None])
     ELSE LET state == SubSeq(label, 1, k - 1)
              entity_type == SubSeq(label, k + 1, Len(label))
          IN IF state = d.outside
             THEN Raise("EncodingError")
             ELSE Ok([state |-> state, type |-> entity_type])

\* join_label: the label or AssertionError.
JoinLabel(name, state, entity_type) ==
  LET d == DialectOf(name)
  IN IF Truthy(entity_type)
     THEN IF state /= d.outside
          THEN Ok(state \o <<d.label_delim>> \o entity_type)
          ELSE Raise("AssertionError")
     ELSE IF state = d.outside
          THEN Ok(state)
          ELSE Raise("AssertionError")

\* --------------------------------------------------------- transition tables
ValidSameTypeTransitions(name) ==
  LET d == DialectOf(name)
      begin == d.begin
      inside == d.inside
      outside == d.outside
      end == d.end
      single == d.single
      cls == EncodingClass(name)
  IN CASE cls = "IO" ->
            {<<inside, inside>>, <<outside, outside>>}
       [] cls = "IOB" ->
            {<<begin, begin>>, <<begin, inside>>, <<inside, inside>>,
             <<inside, begin>>, <<outside, outside>>}
       [] cls = "BIO" ->
            {<<begin, inside>>, <<begin, begin>>, <<inside, inside>>,
             <<inside, begin>>, <<outside, outside>>}
       [] OTHER ->
            {<<begin, inside>>, <<begin, end>>, <<begin, begin>>,
             <<begin, single>>, <<inside, inside>>, <<inside, end>>,
             <<end, begin>>, <<end, single>>, <<single, begin>>,
             <<single, single>>, <<outside, outside>>}

ValidDifferentTypeTransitions(name) ==
  LET d == DialectOf(name)
      begin == d.begin
      inside == d.inside
      outside == d.outside
      end == d.end
      single == d.single
      cls == EncodingClass(name)
  IN CASE cls = "IO" ->
            {<<inside, inside>>, <<outside, inside>>, <<inside, outside>>}
       [] cls = "IOB" ->
            {<<begin, inside>>, <<begin, outside>>, <<inside, inside>>,
             <<inside, outside>>, <<outside, inside>>}
       [] cls = "BIO" ->
            {<<begin, begin>>, <<begin, outside>>, <<inside, begin>>,
             <<inside, outside>>, <<outside, begin>>}
       [] OTHER ->
            {<<end, begin>>, <<end, outside>>, <<end, single>>,
             <<single, begin>>, <<single, outside>>, <<single, single>>,
             <<outside, begin>>, <<outside, single>>}

\* A state set that takes every symbol of the dialect, used or not.
ValidStates_WholeDialect(name) ==
  LET d == DialectOf(name)
  IN {d.begin, d.inside, d.outside, d.end, d.single}

ValidStates(name) ==
  LET d == DialectOf(name)
      cls == EncodingClass(name)
  IN CASE cls = "IO" -> {d.inside, d.outside}
       [] cls = "IOB" -> {d.inside, d.outside, d.begin}
       [] cls = "BIO" -> {d.begin, d.inside, d.outside}
       [] OTHER -> {d.begin, d.inside, d.outside, d.end, d.single}

IsValidState(name, state) == state \in ValidStates(name)

IsValidTransition(name, first_state, first_type, second_state, second_type) ==
  LET transition == <<first_state, second_state>>
  IN IF first_type = second_type
     THEN transition \in ValidSameTypeTransitions(name)
     ELSE transition \in ValidDifferentTypeTransitions(name)

\* -------------------------------------------------------------------- repair
\* BIO conlleval that continues the chunk instead of beginning a new one.
BIORewrite_ToInside(name, method, state, entity_type) ==
  IF method = REPAIR_CONLL
  THEN [state |-> DialectOf(name).inside, type |-> entity_type]
  ELSE [state |-> DialectOf(name).outside, type |-> None]

\* BIO repair that leaves the state of an illegal label as it is.
BIORewrite_KeepState(name, method, state, entity_type) ==
  IF method = REPAIR_CONLL
  THEN [state |-> state, type |-> entity_type]
  ELSE [state |-> DialectOf(name).outside, type |-> None]

\* State and entity type an illegal label is rewritten to (BIO: begin + type
\* for conlleval, outside for discard; IOB: inside + type).
BIORewrite(name, method, state, entity_type) ==
  IF method = REPAIR_CONLL
  THEN [state |-> DialectOf(name).begin, type |-> entity_type]
  ELSE [state |-> DialectOf(name).outside, type |-> None]

IOBRewrite(name, method, state, entity_type) ==
  [state |-> DialectOf(name).inside, type |-> entity_type]

\* The label the next iteration sees as previous: the one of the original
\* sequence instead of the repaired one.
RepairPrev_Original(original, rewritten) == original

\* prev_label, prev_state, prev_entity_type = label, state, entity_type: the
\* variables hold the rewritten label when the label was rewritten.
RepairPrev(original, rewritten) == rewritten

\* label = self.join_label(state, entity_type); repaired_labels[idx] = label,
\* then the update of prev_label, prev_state and prev_entity_type.  original
\* is the label as read, new the state and entity type it is rewritten to.
RepairRewrite(name, st, idx, original, new) ==
  LET joined == JoinLabel(name, new.state, new.type)
      prev == RepairPrev(original,
                         [label |-> joined.val, state |-> new.state,
                          type |-> new.type])
  IN IF joined.exc /= "none" THEN [st EXCEPT !.exc = joined.exc]
     ELSE [st EXCEPT !.repaired_labels[idx] = joined.val,
                     !.prev_label = prev.label,
                     !.prev_state = prev.state,
                     !.prev_entity_type = prev.type]

\* A loop body that treats every label with an entity type as illegal.
RepairLabel_RewriteLegal(name, method, st, idx, label, state, entity_type) ==
  IF ~Truthy(entity_type)
  THEN [st EXCEPT !.prev_label = label, !.prev_state = state,
                  !.prev_entity_type = entity_type]
  ELSE RepairRewrite(name, st, idx,
                     [label |-> label, state |-> state, type |-> entity_type],
                     IF EncodingClass(name) = "BIO"
                     THEN BIORewrite(name, method, state, entity_type)
                     ELSE IOBRewrite(name, method, state, entity_type))

\* The loop body after split_label: a label reached by a legal transition is
\* kept; otherwise the assertions, the choice of the rewrite and the rewrite.
RepairLabel(name, method, st, idx, label, state, entity_type) ==
  IF IsValidTransition(name, st.prev_state, st.prev_entity_type,
                       state, entity_type)
  THEN [st EXCEPT !.prev_label = label, !.prev_state = state,
                  !.prev_entity_type = entity_type]
  ELSE IF EncodingClass(name) = "BIO"
  THEN IF ~Truthy(entity_type) THEN [st EXCEPT !.exc = "AssertionError"]
       ELSE IF method \notin {REPAIR_CONLL, REPAIR_DISCARD}
       THEN [st EXCEPT !.exc = "ValueError"]
       ELSE RepairRewrite(name, st, idx,
                          [label |-> label, state |-> state, type |-> entity_type],
                          BIORewrite(name, method, state, entity_type))
  ELSE IF state /= DialectOf(name).begin \/ ~Truthy(entity_type)
  THEN [st EXCEPT !.exc = "AssertionError"]
  ELSE RepairRewrite(name, st, idx,
                     [label |-> label, state |-> state, type |-> entity_type],
                     IOBRewrite(name, method, state, entity_type))

\* One iteration of the loop of BIO.repair_labels / IOB.repair_labels.  st is
\* the loop state: exc, repaired_labels and the previous label with its state
\* and entity type.
RepairStep(name, method, st, idx) ==
  LET sp == SplitLabel(name, st.repaired_labels[idx])
  IN IF sp.exc /= "none" THEN [st EXCEPT !.exc = sp.exc]
     ELSE RepairLabel(name, method, st, idx, st.repaired_labels[idx],
                      sp.val.state, sp.val.type)

RECURSIVE RepairLoop(_, _, _, _)
RepairLoop(name, method, st, idx) ==
  IF idx > Len(st.repaired_labels) \/ st.exc /= "none" THEN st
  ELSE RepairLoop(name, method, RepairStep(name, method, st, idx), idx + 1)

\* The loop state before the first iteration: the sequence is treated as if
\* preceded by outside, whose split is sp.
RepairInit(name, labels, sp) ==
  [exc |-> sp.exc, repaired_labels |-> labels,
   prev_label |-> DialectOf(name).outside,
   prev_state |-> IF sp.exc = "none" THEN sp.val.state ELSE None,
   prev_entity_type |-> IF sp.exc = "none" THEN sp.val.type ELSE None]

\* return repaired_labels, unless the loop raised.
RepairReturn(st) ==
  IF st.exc /= "none" THEN Raise(st.exc) ELSE Ok(st.repaired_labels)

\* A repair_labels whose IOB accepts every method but none.
RepairLabels_IOBAnyMethod(name, labels, method) ==
  IF EncodingClass(name) \in {"IO", "BIOES"} THEN Raise("NotImplementedError")
  ELSE IF method = REPAIR_NONE THEN Raise("ValueError")
  ELSE IF EncodingClass(name) = "BIO" /\ method \notin SUPPORTED_REPAIR_METHODS
  THEN Raise("ValueError")
  ELSE RepairReturn(
         RepairLoop(name, method,
                    RepairInit(name, labels,
                               SplitLabel(name, DialectOf(name).outside)),
                    1))

\* repair_labels of the scheme: the repaired labels, or the exception raised.
RepairLabels(name, labels, method) ==
  IF EncodingClass(name) \in {"IO", "BIOES"} THEN Raise("NotImplementedError")
  ELSE IF method = REPAIR_NONE THEN Raise("ValueError")
  ELSE IF EncodingClass(name) = "IOB" /\ method /= REPAIR_CONLL
  THEN Raise("ValueError")
  ELSE IF EncodingClass(name) = "BIO" /\ method \notin SUPPORTED_REPAIR_METHODS
  THEN Raise("ValueError")
  ELSE RepairReturn(
         RepairLoop(name, method,
                    RepairInit(name, labels,
                               SplitLabel(name, DialectOf(name).outside)),
                    1))

\* supported_repair_methods: the tuple of method names, or NotImplementedError
\* for the schemes that do not override it.
SupportedRepairMethods(name) ==
  CASE EncodingClass(name) = "IOB" -> Ok({REPAIR_CONLL})
    [] EncodingClass(name) = "BIO" -> Ok({REPAIR_CONLL, REPAIR_DISCARD})
    [] OTHER -> Raise("NotImplementedError")

\* ---------------------------------------------------------------- validation
InvalidStateError(label, entity_type, state, idx) ==
  [cls |-> "InvalidStateError", label |-> label, type |-> entity_type,
   state |-> state, idx |-> idx, prev_label |-> None, next_label |-> label,
   at_end |-> FALSE]

\* prev_label -> next_label is the transition named in the message; label,
\* type and state are the fields of the error; idx is the position whose
\* token and line number the error carries.
InvalidTransitionError(label, entity_type, state, idx, prev_label, next_label, at_end) ==
  [cls |-> "InvalidTransitionError", label |-> label, type |-> entity_type,
   state |-> state, idx |-> idx, prev_label |-> prev_label,
   next_label |-> next_label, at_end |-> at_end]

\* A loop body that stops looking once an error has been found.
StepErrors_FailFast(name, st, label, idx, state, entity_type) ==
  IF st.errors /= <<>> THEN <<>>
  ELSE IF ~IsValidState(name, state)
  THEN <<InvalidStateError(label, entity_type, state, idx)>>
  ELSE IF ~IsValidTransition(name, st.prev_state, st.prev_entity_type,
                             state, entity_type)
  THEN <<InvalidTransitionError(label, entity_type, state, idx,
                                st.prev_label, label, FALSE)>>
  ELSE <<>>

\* A loop body that checks the transition only of a label whose state is
\* valid.
StepErrors_StateFirst(name, st, label, idx, state, entity_type) ==
  IF ~IsValidState(name, state)
  THEN <<InvalidStateError(label, entity_type, state, idx)>>
  ELSE IF ~IsValidTransition(name, st.prev_state, st.prev_entity_type,
                             state, entity_type)
  THEN <<InvalidTransitionError(label, entity_type, state, idx,
                                st.prev_label, label, FALSE)>>
  ELSE <<>>

\* The errors one label adds: the state check, then, independently, the
\* check of the transition from the previous label.
StepErrors(name, st, label, idx, state, entity_type) ==
  LET e1 == IF ~IsValidState(name, state)
            THEN <<InvalidStateError(label, entity_type, state, idx)>>
            ELSE <<>>
      e2 == IF ~IsValidTransition(name, st.prev_state, st.prev_entity_type,
                                  state, entity_type)
            THEN <<InvalidTransitionError(label, entity_type, state, idx,
                                          st.prev_label, label, FALSE)>>
            ELSE <<>>
  IN e1 \o e2

\* The loop body after split_label: the errors of the label are added and the
\* label becomes the previous one.
ValidateLabel(name, st, label, idx, state, entity_type) ==
  [st EXCEPT !.errors = st.errors \o
               StepErrors(name, st, label, idx, state, entity_type),
             !.prev_label = label, !.prev_state = state,
             !.prev_entity_type = entity_type]

\* A loop body that passes over a label that cannot be split.
ValidateStep_SkipUnsplittable(name, st, labels, idx) ==
  LET sp == SplitLabel(name, labels[idx])
  IN IF sp.exc /= "none" THEN st
     ELSE ValidateLabel(name, st, labels[idx], idx, sp.val.state, sp.val.type)

\* One iteration of the loop of validate_labels.
ValidateStep(name, st, labels, idx) ==
  LET sp == SplitLabel(name, labels[idx])
  IN IF sp.exc /= "none" THEN [st EXCEPT !.exc = sp.exc]
     ELSE ValidateLabel(name, st, labels[idx], idx, sp.val.state, sp.val.type)

RECURSIVE ValidateLoop(_, _, _, _)
ValidateLoop(name, st, labels, idx) ==
  IF idx > Len(labels) \/ st.exc /= "none" THEN st
  ELSE ValidateLoop(name, ValidateStep(name, st, labels, idx), labels, idx + 1)

\* The end-of-sequence error when the step from the last label to outside,
\* whose state and entity type are given, is illegal.
EndErrors(name, st, labels, state, entity_type) ==
  IF ~IsValidTransition(name, st.prev_state, st.prev_entity_type,
                        state, entity_type)
  THEN <<InvalidTransitionError(st.prev_label, st.prev_entity_type,
                                st.prev_state, Len(labels), st.prev_label,
                                DialectOf(name).outside, TRUE)>>
  ELSE <<>>

\* The check after the loop: the sequence is treated as if followed by
\* outside, whose split is sp.
ValidateEnd(name, st, labels, sp) ==
  IF st.exc /= "none" THEN st
  ELSE IF sp.exc /= "none" THEN [st EXCEPT !.exc = sp.exc]
  ELSE [st EXCEPT !.errors =
          st.errors \o EndErrors(name, st, labels, sp.val.state, sp.val.type)]

\* The loop state before the first iteration: no errors, and the sequence is
\* treated as if preceded by outside, whose split is sp.
ValidateInit(name, sp) ==
  [exc |-> sp.exc, errors |-> <<>>, prev_label |-> DialectOf(name).outside,
   prev_state |-> IF sp.exc = "none" THEN sp.val.state ELSE None,
   prev_entity_type |-> IF sp.exc = "none" THEN sp.val.type ELSE None]

\* The state of validate_labels after its loop and its end-of-sequence check.
ValidateRun(name, labels) ==
  ValidateEnd(name,
              ValidateLoop(name,
                           ValidateInit(name,
                                        SplitLabel(name, DialectOf(name).outside)),
                           labels, 1),
              labels, SplitLabel(name, DialectOf(name).outside))

\* The errors validate_labels collects (before any repair), or the exception.
ValidationErrors(name, labels) ==
  LET st == ValidateRun(name, labels)
  IN IF st.exc /= "none" THEN Raise(st.exc) ELSE Ok(st.errors)

\* SequenceValidationResult(errors, len(labels), repaired_labels); rep is the
\* outcome of repair_labels, Ok(<<>>) when no repair was made.
SequenceValidationResult(errors, labels, rep) ==
  IF rep.exc /= "none" THEN Raise(rep.exc)
  ELSE Ok([errors |-> errors, n_tokens |-> Len(labels),
           repaired_labels |-> rep.val, labels |-> labels])

\* An end of validate_labels that repairs whenever a repair method was passed.
ValidateReturn_AlwaysRepair(name, labels, repair, st) ==
  IF st.exc /= "none" THEN Raise(st.exc)
  ELSE IF MethodTruthy(repair)
  THEN SequenceValidationResult(st.errors, labels,
                                RepairLabels(name, labels, repair))
  ELSE SequenceValidationResult(st.errors, labels, Ok(<<>>))

\* The end of validate_labels: the repair, if there are errors and a repair
\* method was passed, and the result.  st is the state ValidateRun returns.
ValidateReturn(name, labels, repair, st) ==
  IF st.exc /= "none" THEN Raise(st.exc)
  ELSE IF st.errors /= <<>> /\ MethodTruthy(repair)
  THEN SequenceValidationResult(st.errors, labels,
                                RepairLabels(name, labels, repair))
  ELSE SequenceValidationResult(st.errors, labels, Ok(<<>>))

\* validate_labels: a SequenceValidationResult or the exception raised.
\* repair is NoMethod or a method name.
ValidateLabels(name, labels, repair) ==
  ValidateReturn(name, labels, repair, ValidateRun(name, labels))

\* ------------------------------------------------------------------ registry
\* str.upper() on names written in ASCII: a lower-case letter becomes its
\* capital, every other character stays.
LowerLetters == <<"a", "b", "c", "d", "e", "f", "g", "h", "i", "j", "k", "l", "m", "n", "o", "p", "q", "r", "s", "t", "u", "v", "w", "x", "y", "z">>

UpperLetters == <<"A", "B", "C", "D", "E", "F", "G", "H", "I", "J", "K", "L", "M", "N", "O", "P", "Q", "R", "S", "T", "U", "V", "W", "X", "Y", "Z">>

UpperChar(c) ==
  IF \E i \in 1..Len(LowerLetters) : LowerLetters[i] = c
  THEN UpperLetters[CHOOSE i \in 1..Len(LowerLetters) : LowerLetters[i] = c]
  ELSE c

Upper(name) == [i \in 1..Len(name) |-> UpperChar(name[i])]

\* _ENCODING_NAMES: the key as written, and the instance stored under it.
ENCODING_NAMES ==
  { [key |-> <<"B", "I", "O">>, enc |-> "BIO"],
    [key |-> <<"B", "I", "O", "E", "S">>, enc |-> "BIOES"],
    [key |-> <<"B", "I", "L", "O", "U">>, enc |-> "BILOU"],
    [key |-> <<"B", "M", "E", "S">>, enc |-> "BMES"],
    [key |-> <<"B", "M", "E", "O", "W">>, enc |-> "BMEOW"],
    [key |-> <<"I", "O">>, enc |-> "IO"],
    [key |-> <<"I", "O", "B">>, enc |-> "IOB"] }

\* A lookup that takes the name as written.
GetEncoding_AsWritten(name) ==
  IF \E e \in ENCODING_NAMES : e.key = name
  THEN Ok((CHOOSE e \in ENCODING_NAMES : e.key = name).enc)
  ELSE Raise("ValueError")

GetEncoding(name) ==
  IF \E e \in ENCODING_NAMES : e.key = Upper(name)
  THEN Ok((CHOOSE e \in ENCODING_NAMES : e.key = Upper(name)).enc)
  ELSE Raise("ValueError")

\* ------------------------------------------------------------ mention builder
\* Span(start, end) and Mention(span, type) with their constructor checks.
SpanOk(start, end) == start >= 0 /\ end >= 0 /\ end > start

Mention(start, end, type) == [start |-> start, end |-> end, type |-> type]

\* The absent start index of the builder.
NoIdx == -1

\* _MentionBuilder(): exc is the exception that ended the call using it.
NewBuilder ==
  [exc |-> "none", start_idx |-> NoIdx, entity_type |-> None, mentions |-> <<>>]

InMention(b) == b.start_idx /= NoIdx

\* A start_mention that opens the mention one position early.
StartMention_Early(b, start_idx, entity_type) ==
  IF b.exc /= "none" THEN b
  ELSE IF ~(start_idx >= 0) \/ ~Truthy(entity_type)
          \/ b.start_idx /= NoIdx \/ b.entity_type /= None
  THEN [b EXCEPT !.exc = "AssertionError"]
  ELSE [b EXCEPT !.start_idx = IF start_idx > 0 THEN start_idx - 1 ELSE 0,
                 !.entity_type = entity_type]

\* A start_mention that checks its arguments only.
StartMention_Overwrite(b, start_idx, entity_type) ==
  IF b.exc /= "none" THEN b
  ELSE IF ~(start_idx >= 0) \/ ~Truthy(entity_type)
  THEN [b EXCEPT !.exc = "AssertionError"]
  ELSE [b EXCEPT !.start_idx = start_idx, !.entity_type = entity_type]

StartMention(b, start_idx, entity_type) ==
  IF b.exc /= "none" THEN b
  ELSE IF ~(start_idx >= 0) \/ ~Truthy(entity_type)
          \/ b.start_idx /= NoIdx \/ b.entity_type /= None
  THEN [b EXCEPT !.exc = "AssertionError"]
  ELSE [b EXCEPT !.start_idx = start_idx, !.entity_type = entity_type]

\* An end_mention that forgets the start index but keeps the entity type.
EndMention_KeepType(b, end_idx) ==
  IF b.exc /= "none" THEN b
  ELSE IF ~(end_idx > 0) \/ b.start_idx = NoIdx \/ b.entity_type = None
  THEN [b EXCEPT !.exc = "AssertionError"]
  ELSE IF ~SpanOk(b.start_idx, end_idx) \/ b.entity_type = <<>>
  THEN [b EXCEPT !.exc = "ValueError"]
  ELSE [b EXCEPT !.mentions =
                   Append(b.mentions, Mention(b.start_idx, end_idx, b.entity_type)),
                 !.start_idx = NoIdx]

EndMention(b, end_idx) ==
  IF b.exc /= "none" THEN b
  ELSE IF ~(end_idx > 0) \/ b.start_idx = NoIdx \/ b.entity_type = None
  THEN [b EXCEPT !.exc = "AssertionError"]
  ELSE IF ~SpanOk(b.start_idx, end_idx) \/ b.entity_type = <<>>
  THEN [b EXCEPT !.exc = "ValueError"]
  ELSE [b EXCEPT !.mentions =
                   Append(b.mentions, Mention(b.start_idx, end_idx, b.entity_type)),
                 !.start_idx = NoIdx, !.entity_type = None]

BuilderRaise(b, e) == IF b.exc /= "none" THEN b ELSE [b EXCEPT !.exc = e]

\* -------------------------------------------------------------------- decode
\* An IO loop body that lets an inside label of another type continue the
\* open mention.
IODecodeStep_NoTypeSplit(name, b, idx, state, entity_type) ==
  LET d == DialectOf(name)
  IN IF state = d.inside
     THEN IF InMention(b) THEN b ELSE StartMention(b, idx, entity_type)
     ELSE IF state /= d.outside THEN BuilderRaise(b, "AssertionError")
     ELSE IF InMention(b) THEN EndMention(b, idx)
     ELSE b

\* The loop bodies of decode_labels; idx is the 0-based position of label.
IODecodeStep(name, b, idx, state, entity_type) ==
  LET d == DialectOf(name)
  IN IF state = d.inside
     THEN IF InMention(b)
          THEN IF entity_type /= b.entity_type
               THEN StartMention(EndMention(b, idx), idx, entity_type)
               ELSE b
          ELSE StartMention(b, idx, entity_type)
     ELSE IF state /= d.outside THEN BuilderRaise(b, "AssertionError")
     ELSE IF InMention(b) THEN EndMention(b, idx)
     ELSE b

\* A begin check that only looks at whether a mention is open.
IOBBeginIllegal_OnlyOutside(b, entity_type) == ~InMention(b)

\* IOB: begin is only allowed directly after a mention of the same type.
IOBBeginIllegal(b, entity_type) ==
  ~InMention(b) \/ (InMention(b) /\ entity_type /= b.entity_type)

\* An inside branch that rejects a type change.
IOBInsideStep_RaiseOnMismatch(b, idx, entity_type) ==
  IF InMention(b)
  THEN IF entity_type /= b.entity_type
       THEN BuilderRaise(b, "EncodingError")
       ELSE b
  ELSE StartMention(b, idx, entity_type)

\* IOB, inside label: a type change ends the open mention and starts a new one.
IOBInsideStep(b, idx, entity_type) ==
  IF InMention(b)
  THEN IF entity_type /= b.entity_type
       THEN StartMention(EndMention(b, idx), idx, entity_type)
       ELSE b
  ELSE StartMention(b, idx, entity_type)

IOBDecodeStep(name, b, idx, state, entity_type) ==
  LET d == DialectOf(name)
  IN IF state = d.begin
     THEN IF IOBBeginIllegal(b, entity_type)
          THEN BuilderRaise(b, "EncodingError")
          ELSE StartMention(EndMention(b, idx), idx, entity_type)
     ELSE IF state = d.inside THEN IOBInsideStep(b, idx, entity_type)
     ELSE IF state /= d.outside THEN BuilderRaise(b, "AssertionError")
     ELSE IF InMention(b) THEN EndMention(b, idx)
     ELSE b

\* A continuation check that asserts an open mention before comparing types.
BIOInsideStep_AssertFirst(b, entity_type) ==
  IF ~InMention(b) THEN BuilderRaise(b, "AssertionError")
  ELSE IF entity_type /= b.entity_type THEN BuilderRaise(b, "EncodingError")
  ELSE b

\* BIO, inside label: the type must be the one of the open mention.
BIOInsideStep(b, entity_type) ==
  IF entity_type /= b.entity_type THEN BuilderRaise(b, "EncodingError")
  ELSE IF ~InMention(b) THEN BuilderRaise(b, "AssertionError")
  ELSE b

BIODecodeStep(name, b, idx, state, entity_type) ==
  LET d == DialectOf(name)
      b1 == IF InMention(b) /\ state /= d.inside THEN EndMention(b, idx) ELSE b
  IN IF b1.exc /= "none" THEN b1
     ELSE IF state = d.begin THEN StartMention(b1, idx, entity_type)
     ELSE IF state = d.inside THEN BIOInsideStep(b1, entity_type)
     ELSE IF state = d.outside
     THEN IF InMention(b1) THEN BuilderRaise(b1, "AssertionError") ELSE b1
     ELSE b1

\* A BIOES decoding that closes the mention before its end label.
BIOESDecodeStep_EndExcluded(name, b, idx, state, entity_type) ==
  LET d == DialectOf(name)
  IN IF state = d.single
     THEN IF InMention(b) THEN BuilderRaise(b, "AssertionError")
          ELSE EndMention(StartMention(b, idx, entity_type), idx + 1)
     ELSE IF state = d.begin
     THEN IF InMention(b) THEN BuilderRaise(b, "AssertionError")
          ELSE StartMention(b, idx, entity_type)
     ELSE IF state = d.end
     THEN IF ~InMention(b) THEN BuilderRaise(b, "AssertionError")
          ELSE EndMention(b, idx)
     ELSE IF state = d.inside
     THEN IF ~InMention(b) THEN BuilderRaise(b, "AssertionError") ELSE b
     ELSE IF state /= d.outside \/ InMention(b)
     THEN BuilderRaise(b, "AssertionError")
     ELSE b

BIOESDecodeStep(name, b, idx, state, entity_type) ==
  LET d == DialectOf(name)
  IN IF state = d.single
     THEN IF InMention(b) THEN BuilderRaise(b, "AssertionError")
          ELSE EndMention(StartMention(b, idx, entity_type), idx + 1)
     ELSE IF state = d.begin
     THEN IF InMention(b) THEN BuilderRaise(b, "AssertionError")
          ELSE StartMention(b, idx, entity_type)
     ELSE IF state = d.end
     THEN IF ~InMention(b) THEN BuilderRaise(b, "AssertionError")
          ELSE EndMention(b, idx + 1)
     ELSE IF state = d.inside
     THEN IF ~InMention(b) THEN BuilderRaise(b, "AssertionError") ELSE b
     ELSE IF state /= d.outside \/ InMention(b)
     THEN BuilderRaise(b, "AssertionError")
     ELSE b

\* One iteration of decode_labels of the scheme: split the label, then the
\* scheme's loop body.
DecodeStep(name, b, idx, label) ==
  LET sp == SplitLabel(name, label)
      cls == EncodingClass(name)
  IN IF b.exc /= "none" THEN b
     ELSE IF sp.exc /= "none" THEN BuilderRaise(b, sp.exc)
     ELSE CASE cls = "IO" -> IODecodeStep(name, b, idx, sp.val.state, sp.val.type)
            [] cls = "IOB" -> IOBDecodeStep(name, b, idx, sp.val.state, sp.val.type)
            [] cls = "BIO" -> BIODecodeStep(name, b, idx, sp.val.state, sp.val.type)
            [] OTHER -> BIOESDecodeStep(name, b, idx, sp.val.state, sp.val.type)

RECURSIVE DecodeLoop(_, _, _, _)
DecodeLoop(name, b, labels, idx) ==
  IF idx >= Len(labels) \/ b.exc /= "none" THEN b
  ELSE DecodeLoop(name, DecodeStep(name, b, idx, labels[idx + 1]), labels, idx + 1)

\* An end of decoding that forgets a mention that is still open.
DecodeFinish_DropOpen(name, b, labels) ==
  IF b.exc = "none" /\ InMention(b)
  THEN [b EXCEPT !.start_idx = NoIdx, !.entity_type = None]
  ELSE b

\* An end of decoding that closes a mention that is still open in every scheme.
DecodeFinish_CloseAlways(name, b, labels) ==
  LET b1 == IF b.exc = "none" /\ InMention(b)
            THEN EndMention(b, Len(labels))
            ELSE b
  IN IF b1.exc /= "none" THEN b1
     ELSE IF InMention(b1) THEN BuilderRaise(b1, "AssertionError")
     ELSE b1

\* The code after the loop: IO, IOB and BIO close a mention that is still
\* open; every scheme then asserts that no mention is open.
DecodeFinish(name, b, labels) ==
  LET cls == EncodingClass(name)
      b1 == IF cls /= "BIOES" /\ b.exc = "none" /\ InMention(b)
            THEN EndMention(b, Len(labels))
            ELSE b
  IN IF b1.exc /= "none" THEN b1
     ELSE IF InMention(b1) THEN BuilderRaise(b1, "AssertionError")
     ELSE b1

\* decode_labels: the mention list or the exception raised.
DecodeLabels(name, labels) ==
  LET b == DecodeFinish(name, DecodeLoop(name, NewBuilder, labels, 0), labels)
  IN IF b.exc /= "none" THEN Raise(b.exc) ELSE Ok(b.mentions)

\* -------------------------------------------------------------------- encode
\* output_labels[idx] = label (idx 0-based), IndexError outside the list.
SetLabel(st, idx, joined) ==
  IF st.exc /= "none" THEN st
  ELSE IF joined.exc /= "none" THEN [st EXCEPT !.exc = joined.exc]
  ELSE IF idx < 0 \/ idx >= Len(st.output_labels)
  THEN [st EXCEPT !.exc = "IndexError"]
  ELSE [st EXCEPT !.output_labels[idx + 1] = joined.val]

\* for idx in range(lo, hi): output_labels[idx] = join_label(StateAt(idx), type)
RECURSIVE FillRange(_, _, _, _, _, _, _)
FillRange(name, st, idx, hi, last_state, mid_state, type) ==
  IF idx >= hi \/ st.exc /= "none" THEN st
  ELSE FillRange(name,
                 SetLabel(st, idx,
                          JoinLabel(name,
                                    IF idx = hi - 1 THEN last_state ELSE mid_state,
                                    type)),
                 idx + 1, hi, last_state, mid_state, type)

\* The loop bodies of encode_mentions.
IOEncodeStep(name, st, mention) ==
  LET d == DialectOf(name)
      label == JoinLabel(name, d.inside, mention.type)
  IN FillRange(name, SetLabel(st, mention.start, label),
               mention.start + 1, mention.end, d.inside, d.inside, mention.type)

\* IOB encoding that emits begin after every adjacent mention, whatever its
\* type.
IOBEncodeStep_AdjacentOnly(name, st, mention) ==
  LET d == DialectOf(name)
      start_state == IF mention.start = st.last_end THEN d.begin ELSE d.inside
      st1 == SetLabel(st, mention.start,
                      JoinLabel(name, start_state, mention.type))
      st2 == FillRange(name, st1, mention.start + 1, mention.end,
                       d.inside, d.inside, mention.type)
  IN IF st2.exc /= "none" THEN st2
     ELSE [st2 EXCEPT !.last_end = mention.end, !.last_type = mention.type]

\* IOB encoding that never emits begin.
IOBEncodeStep_NoBegin(name, st, mention) ==
  LET d == DialectOf(name)
      st1 == SetLabel(st, mention.start, JoinLabel(name, d.inside, mention.type))
      st2 == FillRange(name, st1, mention.start + 1, mention.end,
                       d.inside, d.inside, mention.type)
  IN IF st2.exc /= "none" THEN st2
     ELSE [st2 EXCEPT !.last_end = mention.end, !.last_type = mention.type]

IOBEncodeStep(name, st, mention) ==
  LET d == DialectOf(name)
      start_state ==
        IF mention.start = st.last_end /\ mention.type = st.last_type
        THEN d.begin ELSE d.inside
      st1 == SetLabel(st, mention.start,
                      JoinLabel(name, start_state, mention.type))
      st2 == FillRange(name, st1, mention.start + 1, mention.end,
                       d.inside, d.inside, mention.type)
  IN IF st2.exc /= "none" THEN st2
     ELSE [st2 EXCEPT !.last_end = mention.end, !.last_type = mention.type]

\* A BIO encoding that labels only the first token of a mention.
BIOEncodeStep_FirstOnly(name, st, mention) ==
  SetLabel(st, mention.start,
           JoinLabel(name, DialectOf(name).begin, mention.type))

BIOEncodeStep(name, st, mention) ==
  LET d == DialectOf(name)
      st1 == SetLabel(st, mention.start, JoinLabel(name, d.begin, mention.type))
  IN FillRange(name, st1, mention.start + 1, mention.end,
               d.inside, d.inside, mention.type)

\* A BIOES encoding that writes the last token of a longer mention as inside,
\* not as end.
BIOESEncodeStep_NoEnd(name, st, mention) ==
  LET d == DialectOf(name)
  IN IF mention.end - mention.start = 1
     THEN SetLabel(st, mention.start, JoinLabel(name, d.single, mention.type))
     ELSE FillRange(name,
                    SetLabel(st, mention.start,
                             JoinLabel(name, d.begin, mention.type)),
                    mention.start + 1, mention.end, d.inside, d.inside,
                    mention.type)

\* A BIOES encoding that writes a one-token mention as begin, not as single.
BIOESEncodeStep_NoSingle(name, st, mention) ==
  LET d == DialectOf(name)
  IN FillRange(name,
               SetLabel(st, mention.start,
                        JoinLabel(name, d.begin, mention.type)),
               mention.start + 1, mention.end, d.end, d.inside, mention.type)

BIOESEncodeStep(name, st, mention) ==
  LET d == DialectOf(name)
  IN IF mention.end - mention.start = 1
     THEN SetLabel(st, mention.start, JoinLabel(name, d.single, mention.type))
     ELSE FillRange(name,
                    SetLabel(st, mention.start,
                             JoinLabel(name, d.begin, mention.type)),
                    mention.start + 1, mention.end, d.end, d.inside, mention.type)

EncodeStep(name, st, mention) ==
  LET cls == EncodingClass(name)
  IN CASE cls = "IO" -> IOEncodeStep(name, st, mention)
       [] cls = "IOB" -> IOBEncodeStep(name, st, mention)
       [] cls = "BIO" -> BIOEncodeStep(name, st, mention)
       [] OTHER -> BIOESEncodeStep(name, st, mention)

RECURSIVE EncodeLoop(_, _, _, _)
EncodeLoop(name, st, mentions, k) ==
  IF k > Len(mentions) \/ st.exc /= "none" THEN st
  ELSE EncodeLoop(name, EncodeStep(name, st, mentions[k]), mentions, k + 1)

\* encode_mentions: the label list or the exception raised.
EncodeMentions(name, mentions, sequence_length) ==
  LET d == DialectOf(name)
      st0 == [exc |-> "none",
              output_labels |-> [i \in 1..sequence_length |-> d.outside],
              last_end |-> NoIdx, last_type |-> None]
      st == EncodeLoop(name, st0, mentions, 1)
  IN IF st.exc /= "none" THEN Raise(st.exc) ELSE Ok(st.output_labels)

\* -------------------------------------------------------------------- ingest
DOCSTART == "-DOCSTART-"

\* _CoNLLToken.from_line on a line of two or more fields: the first field is
\* the text, the last the label.
FromLine(line, line_num) ==
  [text |-> line.text, label |-> line.label,
   is_docstart |-> (line.text = DOCSTART), line_num |-> line_num]

\* _check_sequence: the exception it raises, if any.
CheckSequence(sequence) ==
  IF sequence[1].is_docstart /\ Len(sequence) > 1 THEN "ValueError" ELSE "none"

\* What one pass of the loop of _parse_file does with the tokens it holds:
\* out is the source sequence it yields, <<>> when it yields none.
Parsed(exc, sequence, out) == [exc |-> exc, sequence |-> sequence, out |-> out]

\* One pass of the loop of _parse_file over a line stripped of trailing
\* blanks (text "" is a line of blanks only).
ParseLine(sequence, line, line_num) ==
  IF line.text = ""
  THEN IF sequence /= <<>>
       THEN Parsed(CheckSequence(sequence), <<>>, sequence)
       ELSE Parsed("none", sequence, <<>>)
  ELSE IF FromLine(line, line_num).is_docstart
  THEN IF sequence /= <<>>
       THEN Parsed("ValueError", sequence, <<>>)
       ELSE Parsed(CheckSequence(<<FromLine(line, line_num)>>), sequence,
                   <<FromLine(line, line_num)>>)
  ELSE Parsed("none", Append(sequence, FromLine(line, line_num)), <<>>)

\* The end of _parse_file: the last sequence, if any, is yielded.
ParseEnd(sequence) ==
  IF sequence /= <<>>
  THEN Parsed(CheckSequence(sequence), <<>>, sequence)
  ELSE Parsed("none", sequence, <<>>)

\* _decompose_sequence: the labels and the line numbers of the tokens.
SequenceLabels(source_sequence) ==
  [i \in 1..Len(source_sequence) |-> source_sequence[i].label]

\* validation.invalid_state_errors()
InvalidStateErrors(errors) ==
  SelectSeq(errors, LAMBDA e : e.cls = "InvalidStateError")

\* What ingest did with one sequence: the exception it raised, the labels
\* read, the validation errors, whether decode_labels was called and on what,
\* and the LabeledSequence it built.
Handled(exc, labels_in, errors, repaired_labels, decode_called, labels, mentions, line_num) ==
  [exc |-> exc, labels_in |-> labels_in, validated |-> TRUE, errors |-> errors,
   repaired_labels |-> repaired_labels, decode_called |-> decode_called,
   labels |-> labels, mentions |-> mentions, line_num |-> line_num]

\* No sequence handled yet.
NoSequence ==
  [exc |-> "none", labels_in |-> <<>>, validated |-> FALSE, errors |-> <<>>,
   repaired_labels |-> <<>>, decode_called |-> FALSE, labels |-> <<>>,
   mentions |-> <<>>, line_num |-> 0]

\* LabeledSequence(tokens, labels, mentions, ...): ValueError unless there is
\* one label per token and at least one token, and no label is empty.
LabeledSequenceOk(n_tokens, labels) ==
  /\ n_tokens = Len(labels)
  /\ n_tokens > 0
  /\ \A i \in 1..Len(labels) : labels[i] /= <<>>

\* ingest after decode_labels returned d: an EncodingError becomes a
\* ValueError, then the LabeledSequence is built.
IngestDecoded(labels_in, v, labels, line_num, d) ==
  IF d.exc = "EncodingError"
  THEN Handled("ValueError", labels_in, v.errors, v.repaired_labels, TRUE, labels, <<>>, line_num)
  ELSE IF d.exc /= "none"
  THEN Handled(d.exc, labels_in, v.errors, v.repaired_labels, TRUE, labels, <<>>, line_num)
  ELSE IF ~LabeledSequenceOk(Len(labels_in), labels)
  THEN Handled("ValueError", labels_in, v.errors, v.repaired_labels, TRUE, labels, d.val, line_num)
  ELSE Handled("none", labels_in, v.errors, v.repaired_labels, TRUE, labels, d.val, line_num)

\* An ingest that decodes the labels as read also after a repair.
IngestValidated_DecodeOriginal(name, labels, repair, line_num, validation) ==
  IF validation.exc /= "none"
  THEN Handled(validation.exc, labels, <<>>, <<>>, FALSE, <<>>, <<>>, line_num)
  ELSE IF validation.val.errors /= <<>>
  THEN IF InvalidStateErrors(validation.val.errors) /= <<>>
       THEN Handled("EncodingError", labels, validation.val.errors,
                    validation.val.repaired_labels, FALSE, <<>>, <<>>, line_num)
       ELSE IF MethodTruthy(repair)
       THEN IngestDecoded(labels, validation.val, labels, line_num,
                          DecodeLabels(name, labels))
       ELSE Handled("EncodingError", labels, validation.val.errors,
                    validation.val.repaired_labels, FALSE, <<>>, <<>>, line_num)
  ELSE IngestDecoded(labels, validation.val, labels, line_num,
                     DecodeLabels(name, labels))

\* ingest after validate_labels returned or raised: invalid states stop the
\* ingestion, other errors are repaired when a method was given and stop it
\* otherwise; then decode_labels.
IngestValidated(name, labels, repair, line_num, validation) ==
  IF validation.exc /= "none"
  THEN Handled(validation.exc, labels, <<>>, <<>>, FALSE, <<>>, <<>>, line_num)
  ELSE IF validation.val.errors /= <<>>
  THEN IF InvalidStateErrors(validation.val.errors) /= <<>>
       THEN Handled("EncodingError", labels, validation.val.errors,
                    validation.val.repaired_labels, FALSE, <<>>, <<>>, line_num)
       ELSE IF MethodTruthy(repair)
       THEN IngestDecoded(labels, validation.val, validation.val.repaired_labels,
                          line_num,
                          DecodeLabels(name, validation.val.repaired_labels))
       ELSE Handled("EncodingError", labels, validation.val.errors,
                    validation.val.repaired_labels, FALSE, <<>>, <<>>, line_num)
  ELSE IngestDecoded(labels, validation.val, labels, line_num,
                     DecodeLabels(name, labels))

\* The body of the loop of ingest for a sequence of tokens.
IngestSequence(name, labels, repair, line_num) ==
  IngestValidated(name, labels, repair, line_num,
                  ValidateLabels(name, labels, repair))

\* The LabeledSequence appended to the document.
LabeledSequence(h) ==
  [labels |-> h.labels, mentions |-> h.mentions, line_num |-> h.line_num]

\* The state of the generator: the exception that ended it, the document
\* being filled, the documents yielded so far, the last sequence handled.
Ingested(exc, document, yielded, last) ==
  [exc |-> exc, document |-> document, yielded |-> yielded, last |-> last]

\* A document start that closes the document whatever the ingester was told.
IngestDocstart_AlwaysClose(ignore, source_sequence, g) ==
  IF Len(source_sequence) /= 1
  THEN Ingested("AssertionError", g.document, g.yielded, g.last)
  ELSE IF g.document /= <<>>
  THEN Ingested("none", <<>>, Append(g.yielded, g.document), g.last)
  ELSE g

\* The body of the loop of ingest for a document start.
IngestDocstart(ignore, source_sequence, g) ==
  IF Len(source_sequence) /= 1
  THEN Ingested("AssertionError", g.document, g.yielded, g.last)
  ELSE IF ~ignore /\ g.document /= <<>>
  THEN Ingested("none", <<>>, Append(g.yielded, g.document), g.last)
  ELSE g

\* The body of the loop of ingest once the sequence was handled as h.
IngestAppend(g, h) ==
  IF h.exc /= "none"
  THEN Ingested(h.exc, g.document, g.yielded, h)
  ELSE Ingested("none", Append(g.document, LabeledSequence(h)), g.yielded, h)

\* The body of the loop of ingest for what _parse_file yielded (parsed.out),
\* if anything.
IngestBody(name, repair, ignore, g, parsed) ==
  IF parsed.exc /= "none"
  THEN Ingested(parsed.exc, g.document, g.yielded, g.last)
  ELSE IF parsed.out = <<>> THEN g
  ELSE IF parsed.out[1].is_docstart
  THEN IngestDocstart(ignore, parsed.out, g)
  ELSE IngestAppend(g, IngestSequence(name, SequenceLabels(parsed.out), repair,
                                      parsed.out[1].line_num))

\* The end of ingest: the last document is yielded if it is not empty.
IngestFinish(g) ==
  IF g.exc /= "none" THEN g
  ELSE IF g.document /= <<>>
  THEN Ingested("none", <<>>, Append(g.yielded, g.document), g.last)
  ELSE g

\* ingest_conll_file before it ingests: a repair method the scheme does not
\* support is refused.
RepairSupported(name, repair) ==
  IF ~MethodTruthy(repair) THEN Ok(TRUE)
  ELSE IF SupportedRepairMethods(name).exc /= "none"
  THEN Raise(SupportedRepairMethods(name).exc)
  ELSE IF repair \notin SupportedRepairMethods(name).val
  THEN Raise("ValueError")
  ELSE Ok(TRUE)

\* -------------------------------------------------------------------- inputs
\* Entity types of the explored inputs.
Types == {<<"X">>, <<"Y">>}

\* A state symbol that is no state of the scheme.
ForeignState(name) ==
  CASE EncodingClass(name) = "IO" -> <<"B">>
    [] EncodingClass(name) = "IOB" -> <<"E">>
    [] EncodingClass(name) = "BIO" -> <<"S">>
    [] name = "BIOES" -> <<"M">>
    [] name = "BILOU" -> <<"E">>
    [] name = "BMES" -> <<"I">>
    [] OTHER -> <<"S">>

\* The labels explored for a scheme, all of which split_label accepts: outside,
\* every state of the scheme with every type, one label with a foreign state
\* and one inside label with an empty entity type.
LabelUniverse(name) ==
  LET d == DialectOf(name)
  IN {d.outside}
     \cup {s \o <<d.label_delim>> \o t :
             s \in ValidStates(name) \ {d.outside}, t \in Types}
     \cup {ForeignState(name) \o <<d.label_delim, "X">>}
     \cup {d.inside \o <<d.label_delim>>}

LabelSeqs(name) ==
  UNION {[1..n -> LabelUniverse(name)] : n \in 0..MaxLen}

\* The mention lists in left-to-right order, pairwise non-overlapping and
\* inside [from, n).
RECURSIVE MentionLists(_, _)
MentionLists(from, n) ==
  {<<>>} \cup
  UNION {{<<Mention(s, e, t)>> \o rest : rest \in MentionLists(e, n)} :
           <<s, e, t>> \in {x \in (from..n) \X (from..n) \X Types : x[1] < x[2]}}

\* The arguments explored for join_label: every state symbol of the dialect,
\* and as entity type None, the empty string, a plain type and types that
\* contain the delimiter.
JoinStates(name) ==
  {DialectOf(name).begin, DialectOf(name).inside, DialectOf(name).outside,
   DialectOf(name).end, DialectOf(name).single}

JoinTypes(name) ==
  {None, <<>>, <<"X">>, <<"X", DialectOf(name).label_delim, "Y">>,
   <<DialectOf(name).label_delim, "X">>}

\* The labels explored for split_label alone: without delimiter (the empty
\* string, outside, a bare state, a bare type), with outside before the
\* delimiter, with nothing before or after it, and with two delimiters.
RawLabels(name) ==
  LET d == DialectOf(name)
      delim == <<d.label_delim>>
  IN {<<>>, d.outside, d.begin, <<"X">>,
      d.outside \o delim \o <<"X">>, d.outside \o delim,
      d.begin \o delim \o <<"X">>, d.begin \o delim, delim \o <<"X">>,
      d.inside \o delim \o <<"X">> \o delim \o <<"Y">>}

\* Label sequences with labels that split_label rejects: over outside, an
\* inside label, a bare type and outside carrying a type.
RawLabelSeqs(name) ==
  LET d == DialectOf(name)
      universe == {d.outside, d.inside \o <<d.label_delim, "X">>, <<"X">>,
                   d.outside \o <<d.label_delim, "X">>}
  IN UNION {[1..n -> universe] : n \in 0..MaxLen}

RepairArgs == {NoMethod, REPAIR_CONLL, REPAIR_DISCARD}

RepairMethods == {REPAIR_CONLL, REPAIR_DISCARD, REPAIR_NONE, "unk"}

Unset == Raise("unset")

\* States handed to is_valid_state: every symbol of some dialect, and strings
\* that are a symbol of none.
StateSymbols ==
  { <<"B">>, <<"I">>, <<"O">>, <<"E">>, <<"S">>, <<"L">>, <<"U">>, <<"M">>,
    <<"W">>, <<"Z">>, <<"b">>, <<>>, <<"B", "I">> }

\* The spellings of key in upper and lower case.
CaseVariants(key) ==
  { [i \in 1..Len(key) |-> IF i \in low THEN LowerLetters[CHOOSE j \in 1..Len(UpperLetters) : UpperLetters[j] = key[i]] ELSE key[i]] : low \in SUBSET (1..Len(key)) }

\* Names handed to get_encoding: the spellings of the registered names, and
\* names that are registered in no spelling.
LookupNames ==
  UNION {CaseVariants(e.key) : e \in ENCODING_NAMES}
    \cup { <<>>, <<"F", "O", "O">>, <<"f", "o", "o">>, <<"B">>, <<"O", "I">>,
           <<"B", "I", "O", "S">>, <<"b", "i", "o", "e">>, <<" ", "I", "O">>,
           <<"I", "O", " ">>, <<"I", "-", "O">>, <<"B", "1", "O">> }

\* Entity types handed to start_mention: the type of a label can be empty.
BuilderTypes == Types \cup {<<>>}

\* The calls of decode_labels that run at the same time on one Encoding.
Calls == {1, 2}

\* Each call works on labels of its own entity type.
CallType(c) == IF c = 1 THEN <<"X">> ELSE <<"Y">>

\* Label sequences handed to a call: the encodings of the mention lists of
\* entity type t inside [0, n), and two sequences of one label (begin,
\* inside) that not every scheme decodes.
ConcInputs(name, t) ==
  { EncodeMentions(name, ms, n).val :
      <<n, ms>> \in { x \in (0..ConcLen) \X MentionLists(0, ConcLen) :
                        /\ x[2] \in MentionLists(0, x[1])
                        /\ \A i \in 1..Len(x[2]) : x[2][i].type = t } }
    \cup { <<DialectOf(name).begin \o <<DialectOf(name).label_delim>> \o t>>,
           <<DialectOf(name).inside \o <<DialectOf(name).label_delim>> \o t>> }

\* One builder kept by the Encoding for all its calls.
BuilderOf_Shared(c) == 1

\* The builder a call works on: `builder = _MentionBuilder()` is a local
\* variable of decode_labels, so each call has its own.
BuilderOf(c) == c

\* The lines of the files handed to the ingester: blank lines, document
\* starts and tokens, whose labels are outside, the label that starts a
\* mention of one token, an inside label and a label whose state is no state
\* of the scheme.
BlankLine == [text |-> "", label |-> <<>>]

DocstartLine == [text |-> DOCSTART, label |-> <<"O">>]

TokenLine(label) == [text |-> "w", label |-> label]

LeadState(name) ==
  CASE EncodingClass(name) = "IO" -> DialectOf(name).inside
    [] EncodingClass(name) \in {"IOB", "BIO"} -> DialectOf(name).begin
    [] OTHER -> DialectOf(name).single

IngestLabels(name) ==
  { DialectOf(name).outside,
    LeadState(name) \o <<DialectOf(name).label_delim, "X">>,
    DialectOf(name).inside \o <<DialectOf(name).label_delim, "X">>,
    ForeignState(name) \o <<DialectOf(name).label_delim, "X">> }

IngestLines(name) ==
  {BlankLine, DocstartLine} \cup {TokenLine(l) : l \in IngestLabels(name)}

IngestFiles(name) == UNION {[1..n -> IngestLines(name)] : n \in 0..MaxLines}

\* --------------------------------------------------------------------- state
VARIABLES
  pc,               \* position of the caller: which call has been made
  encoding,         \* name of the scheme in use
  mentions,         \* mention list handed to encode_mentions
  sequence_length,  \* sequence_length handed to encode_mentions
  labels,           \* the label sequence the calls work on
  repair,           \* repair argument of the last validate / repair call
  encoded,          \* result of encode_mentions
  validation,       \* result of validate_labels
  repaired,         \* result of repair_labels
  revalidation,     \* result of validate_labels on the repaired labels
  decoded,          \* result of decode_labels
  reencoded,        \* result of encode_mentions on the decoded mentions
  rerepaired,       \* result of repair_labels on the repaired labels
  join_state,       \* state handed to join_label
  join_type,        \* entity type handed to join_label
  raw_label,        \* label handed to split_label
  join_result,      \* result of join_label
  split_result,     \* result of split_label
  state_symbol,     \* state handed to is_valid_state
  state_valid,      \* result of is_valid_state
  lookup_name,      \* name handed to get_encoding
  lookup_result,    \* result of get_encoding
  builder,          \* the _MentionBuilder
  builder_idx,      \* position of the loop that calls the builder
  builder_before,   \* the builder as it was before the last call on it
  builder_call,     \* the last call on the builder and its arguments
  calls,            \* the calls of decode_labels running at the same time
  builders,         \* the mention builders of those calls
  file,             \* the lines of the file handed to ingest_conll_file
  ignore_document_boundaries,  \* attribute of the CoNLLIngester
  line_num,         \* number of lines _parse_file has read
  sequence,         \* the tokens _parse_file holds
  generator         \* ingest: exception, document, documents yielded, last sequence

\* The variables of the calls on label sequences and those of the calls of
\* the label codec.
seqVars == <<mentions, sequence_length, labels, repair, encoded, validation,
             repaired, revalidation, decoded, reencoded, rerepaired>>

codecVars == <<join_state, join_type, raw_label, join_result, split_result>>

\* The variables of the calls of is_valid_state and get_encoding, and those of
\* the calls on a mention builder.
registryVars == <<state_symbol, state_valid, lookup_name, lookup_result>>

builderVars == <<builder, builder_idx, builder_before, builder_call>>

\* The variables of the calls that run at the same time.
concVars == <<calls, builders>>

\* The variables of the ingestion of a file.
ingestVars == <<file, ignore_document_boundaries, line_num, sequence, generator>>

vars == <<pc, encoding, seqVars, codecVars, registryVars, builderVars, concVars, ingestVars>>

\* ingest before its first pass: document_counter = 0, document = [].
NewGenerator == Ingested("none", <<>>, <<>>, NoSequence)

\* No call of decode_labels running.
NoDecode == [labels |-> <<>>, stage |-> "none", idx |-> 0, result |-> Unset]

\* No call on the builder yet.
NoCall == [op |-> "none", idx |-> NoIdx, type |-> None]

Init ==
  /\ encoding \in EncodingNames
  /\ \/ /\ pc = "ready"
        /\ labels \in LabelSeqs(encoding)
        /\ mentions = <<>>
        /\ sequence_length = Len(labels)
        /\ join_state = None /\ join_type = None /\ raw_label = <<>>
        /\ state_symbol = <<>> /\ lookup_name = <<>>
     \/ /\ pc = "start"
        /\ sequence_length \in 0..MaxLen
        /\ mentions \in MentionLists(0, sequence_length)
        /\ labels = <<>>
        /\ join_state = None /\ join_type = None /\ raw_label = <<>>
        /\ state_symbol = <<>> /\ lookup_name = <<>>
     \/ /\ pc = "raw"
        /\ labels \in RawLabelSeqs(encoding)
        /\ mentions = <<>>
        /\ sequence_length = Len(labels)
        /\ join_state = None /\ join_type = None /\ raw_label = <<>>
        /\ state_symbol = <<>> /\ lookup_name = <<>>
     \/ /\ pc = "join"
        /\ join_state \in JoinStates(encoding)
        /\ join_type \in JoinTypes(encoding)
        /\ raw_label = <<>>
        /\ labels = <<>> /\ mentions = <<>> /\ sequence_length = 0
        /\ state_symbol = <<>> /\ lookup_name = <<>>
     \/ /\ pc = "split"
        /\ raw_label \in RawLabels(encoding)
        /\ join_state = None /\ join_type = None
        /\ labels = <<>> /\ mentions = <<>> /\ sequence_length = 0
        /\ state_symbol = <<>> /\ lookup_name = <<>>
     \/ /\ pc = "state"
        /\ state_symbol \in StateSymbols
        /\ lookup_name = <<>>
        /\ join_state = None /\ join_type = None /\ raw_label = <<>>
        /\ labels = <<>> /\ mentions = <<>> /\ sequence_length = 0
     \/ /\ pc = "lookup"
        /\ lookup_name \in LookupNames
        /\ state_symbol = <<>>
        /\ join_state = None /\ join_type = None /\ raw_label = <<>>
        /\ labels = <<>> /\ mentions = <<>> /\ sequence_length = 0
     \/ /\ pc = "building"
        /\ state_symbol = <<>> /\ lookup_name = <<>>
        /\ join_state = None /\ join_type = None /\ raw_label = <<>>
        /\ labels = <<>> /\ mentions = <<>> /\ sequence_length = 0
  /\ repair = NoMethod
  /\ encoded = Unset
  /\ validation = Unset
  /\ repaired = Unset
  /\ revalidation = Unset
  /\ decoded = Unset
  /\ reencoded = Unset
  /\ rerepaired = Unset
  /\ join_result = Unset
  /\ split_result = Unset
  /\ state_valid = Unset
  /\ lookup_result = Unset
  /\ builder = NewBuilder
  /\ builder_idx = 0
  /\ builder_before = NewBuilder
  /\ builder_call = NoCall
  /\ calls = [c \in Calls |-> NoDecode]
  /\ builders = [c \in Calls |-> NewBuilder]
  /\ file = <<>>
  /\ ignore_document_boundaries = TRUE
  /\ line_num = 0
  /\ sequence = <<>>
  /\ generator = NewGenerator

\* encoding.encode_mentions(mentions, sequence_length); its output becomes the
\* label sequence the following calls work on.
Encode ==
  /\ pc = "start"
  /\ encoded' = EncodeMentions(encoding, mentions, sequence_length)
  /\ labels' = IF encoded'.exc = "none" THEN encoded'.val ELSE labels
  /\ pc' = IF encoded'.exc = "none" THEN "encoded" ELSE "failed"
  /\ UNCHANGED <<encoding, mentions, sequence_length, repair, validation,
                 repaired, revalidation, decoded, reencoded>>
  /\ UNCHANGED <<rerepaired, codecVars, registryVars, builderVars>>
  /\ UNCHANGED <<concVars, ingestVars>>

\* validate_labels(labels, encoding, repair=r)
Validate ==
  /\ pc \in {"ready", "encoded"}
  /\ \E r \in RepairArgs :
       /\ repair' = r
       /\ validation' = ValidateLabels(encoding, labels, r)
  /\ pc' = "validated"
  /\ UNCHANGED <<encoding, mentions, sequence_length, labels, encoded,
                 repaired, revalidation, decoded, reencoded>>
  /\ UNCHANGED <<rerepaired, codecVars, registryVars, builderVars>>
  /\ UNCHANGED <<concVars, ingestVars>>

\* validate_labels(labels, encoding, repair=r) on labels as read from a file,
\* not all of which split_label accepts
ValidateRaw ==
  /\ pc = "raw"
  /\ \E r \in RepairArgs :
       /\ repair' = r
       /\ validation' = ValidateLabels(encoding, labels, r)
  /\ pc' = "raw_validated"
  /\ UNCHANGED <<encoding, mentions, sequence_length, labels, encoded,
                 repaired, revalidation, decoded, reencoded>>
  /\ UNCHANGED <<rerepaired, codecVars, registryVars, builderVars>>
  /\ UNCHANGED <<concVars, ingestVars>>

\* encoding.repair_labels(labels, m)
Repair ==
  /\ pc = "ready"
  /\ \E m \in RepairMethods :
       /\ repair' = m
       /\ repaired' = RepairLabels(encoding, labels, m)
  /\ pc' = "repaired"
  /\ UNCHANGED <<encoding, mentions, sequence_length, labels, encoded,
                 validation, revalidation, decoded, reencoded>>
  /\ UNCHANGED <<rerepaired, codecVars, registryVars, builderVars>>
  /\ UNCHANGED <<concVars, ingestVars>>

\* validate_labels(repair_labels(labels, m), encoding)
Revalidate ==
  /\ pc = "repaired"
  /\ repaired.exc = "none"
  /\ revalidation' = ValidateLabels(encoding, repaired.val, NoMethod)
  /\ pc' = "revalidated"
  /\ UNCHANGED <<encoding, mentions, sequence_length, labels, repair, encoded,
                 validation, repaired, decoded, reencoded>>
  /\ UNCHANGED <<rerepaired, codecVars, registryVars, builderVars>>
  /\ UNCHANGED <<concVars, ingestVars>>

\* encoding.decode_labels(labels)
Decode ==
  /\ pc \in {"ready", "encoded"}
  /\ decoded' = DecodeLabels(encoding, labels)
  /\ pc' = "decoded"
  /\ UNCHANGED <<encoding, mentions, sequence_length, labels, repair, encoded,
                 validation, repaired, revalidation, reencoded>>
  /\ UNCHANGED <<rerepaired, codecVars, registryVars, builderVars>>
  /\ UNCHANGED <<concVars, ingestVars>>

\* encoding.encode_mentions(encoding.decode_labels(labels), len(labels))
ReEncode ==
  /\ pc = "decoded"
  /\ decoded.exc = "none"
  /\ reencoded' = EncodeMentions(encoding, decoded.val, Len(labels))
  /\ pc' = "reencoded"
  /\ UNCHANGED <<encoding, mentions, sequence_length, labels, repair, encoded,
                 validation, repaired, revalidation, decoded>>
  /\ UNCHANGED <<rerepaired, codecVars, registryVars, builderVars>>
  /\ UNCHANGED <<concVars, ingestVars>>

\* encoding.repair_labels(encoding.repair_labels(labels, m), m)
RepairAgain ==
  /\ pc = "repaired"
  /\ repaired.exc = "none"
  /\ rerepaired' = RepairLabels(encoding, repaired.val, repair)
  /\ pc' = "rerepaired"
  /\ UNCHANGED <<encoding, mentions, sequence_length, labels, repair, encoded,
                 validation, repaired, revalidation, decoded, reencoded>>
  /\ UNCHANGED <<codecVars, registryVars, builderVars>>
  /\ UNCHANGED <<concVars, ingestVars>>

\* encoding.join_label(join_state, join_type)
Join ==
  /\ pc = "join"
  /\ join_result' = JoinLabel(encoding, join_state, join_type)
  /\ pc' = "joined"
  /\ UNCHANGED <<encoding, seqVars, join_state, join_type, raw_label,
                 split_result, registryVars, builderVars>>
  /\ UNCHANGED <<concVars, ingestVars>>

\* encoding.split_label(encoding.join_label(join_state, join_type))
SplitJoined ==
  /\ pc = "joined"
  /\ join_result.exc = "none"
  /\ raw_label' = join_result.val
  /\ split_result' = SplitLabel(encoding, join_result.val)
  /\ pc' = "rejoined"
  /\ UNCHANGED <<encoding, seqVars, join_state, join_type, join_result,
                 registryVars, builderVars>>
  /\ UNCHANGED <<concVars, ingestVars>>

\* encoding.split_label(raw_label)
Split ==
  /\ pc = "split"
  /\ split_result' = SplitLabel(encoding, raw_label)
  /\ pc' = "split_done"
  /\ UNCHANGED <<encoding, seqVars, join_state, join_type, raw_label,
                 join_result, registryVars, builderVars>>
  /\ UNCHANGED <<concVars, ingestVars>>

\* encoding.is_valid_state(state_symbol)
IsValidStateCall ==
  /\ pc = "state"
  /\ state_valid' = Ok(IsValidState(encoding, state_symbol))
  /\ pc' = "state_checked"
  /\ UNCHANGED <<encoding, seqVars, codecVars, state_symbol, lookup_name,
                 lookup_result, builderVars>>
  /\ UNCHANGED <<concVars, ingestVars>>

\* get_encoding(lookup_name)
GetEncodingCall ==
  /\ pc = "lookup"
  /\ lookup_result' = GetEncoding(lookup_name)
  /\ pc' = "looked_up"
  /\ UNCHANGED <<encoding, seqVars, codecVars, state_symbol, state_valid,
                 lookup_name, builderVars>>
  /\ UNCHANGED <<concVars, ingestVars>>

\* builder.start_mention(builder_idx, t) from the loop over the positions
StartMentionCall ==
  /\ pc = "building"
  /\ \E t \in BuilderTypes :
       /\ builder_call' = [op |-> "start", idx |-> builder_idx, type |-> t]
       /\ builder' = StartMention(builder, builder_idx, t)
  /\ builder_before' = builder
  /\ pc' = IF builder'.exc = "none" THEN "building" ELSE "builder_failed"
  /\ UNCHANGED <<encoding, seqVars, codecVars, registryVars, builder_idx>>
  /\ UNCHANGED <<concVars, ingestVars>>

\* builder.end_mention(builder_idx) from the loop over the positions
EndMentionCall ==
  /\ pc = "building"
  /\ builder_call' = [op |-> "end", idx |-> builder_idx, type |-> None]
  /\ builder' = EndMention(builder, builder_idx)
  /\ builder_before' = builder
  /\ pc' = IF builder'.exc = "none" THEN "building" ELSE "builder_failed"
  /\ UNCHANGED <<encoding, seqVars, codecVars, registryVars, builder_idx>>
  /\ UNCHANGED <<concVars, ingestVars>>

\* The loop over the positions goes to the next one.
NextPosition ==
  /\ pc = "building"
  /\ builder_idx < MaxLen
  /\ builder_idx' = builder_idx + 1
  /\ UNCHANGED <<pc, encoding, seqVars, codecVars, registryVars, builder,
                 builder_before, builder_call>>
  /\ UNCHANGED <<concVars, ingestVars>>

Next ==
  \/ Encode \/ Validate \/ Repair \/ Revalidate \/ Decode \/ ReEncode
  \/ RepairAgain \/ ValidateRaw
  \/ Join \/ SplitJoined \/ Split
  \/ IsValidStateCall \/ GetEncodingCall
  \/ StartMentionCall \/ EndMentionCall \/ NextPosition

Spec == Init /\ [][Next]_vars

\* ------------------------------------------------- calls at the same time
\* Two calls of decode_labels on the same Encoding have been made and none
\* has run yet.
ConcInit ==
  /\ pc = "concurrent"
  /\ encoding \in EncodingNames
  /\ \E l1 \in ConcInputs(encoding, CallType(1)) :
       \E l2 \in ConcInputs(encoding, CallType(2)) :
         calls = [c \in Calls |->
                    [labels |-> IF c = 1 THEN l1 ELSE l2, stage |-> "new",
                     idx |-> 0, result |-> Unset]]
  /\ builders = [c \in Calls |-> NewBuilder]
  /\ labels = <<>> /\ mentions = <<>> /\ sequence_length = 0
  /\ join_state = None /\ join_type = None /\ raw_label = <<>>
  /\ state_symbol = <<>> /\ lookup_name = <<>>
  /\ repair = NoMethod
  /\ encoded = Unset
  /\ validation = Unset
  /\ repaired = Unset
  /\ revalidation = Unset
  /\ decoded = Unset
  /\ reencoded = Unset
  /\ rerepaired = Unset
  /\ join_result = Unset
  /\ split_result = Unset
  /\ state_valid = Unset
  /\ lookup_result = Unset
  /\ builder = NewBuilder
  /\ builder_idx = 0
  /\ builder_before = NewBuilder
  /\ builder_call = NoCall
  /\ file = <<>>
  /\ ignore_document_boundaries = TRUE
  /\ line_num = 0
  /\ sequence = <<>>
  /\ generator = NewGenerator

\* builder = _MentionBuilder() of call c
DecodeBegin(c) ==
  /\ calls[c].stage = "new"
  /\ builders' = [builders EXCEPT ![BuilderOf(c)] = NewBuilder]
  /\ calls' = [calls EXCEPT ![c].stage = "loop"]
  /\ UNCHANGED <<pc, encoding, seqVars, codecVars, registryVars, builderVars,
                 ingestVars>>

\* One iteration of the loop of call c over its labels.
DecodeIteration(c) ==
  /\ calls[c].stage = "loop"
  /\ calls[c].idx < Len(calls[c].labels)
  /\ builders[BuilderOf(c)].exc = "none"
  /\ builders' = [builders EXCEPT ![BuilderOf(c)] =
                    DecodeStep(encoding, builders[BuilderOf(c)], calls[c].idx,
                               calls[c].labels[calls[c].idx + 1])]
  /\ calls' = [calls EXCEPT ![c].idx = calls[c].idx + 1]
  /\ UNCHANGED <<pc, encoding, seqVars, codecVars, registryVars, builderVars,
                 ingestVars>>

\* The code of call c after its loop, and its return or its exception.
DecodeReturn(c) ==
  /\ calls[c].stage = "loop"
  /\ \/ calls[c].idx >= Len(calls[c].labels)
     \/ builders[BuilderOf(c)].exc /= "none"
  /\ builders' = [builders EXCEPT ![BuilderOf(c)] =
                    DecodeFinish(encoding, builders[BuilderOf(c)], calls[c].labels)]
  /\ calls' = [calls EXCEPT
                 ![c].stage = "done",
                 ![c].result = IF builders'[BuilderOf(c)].exc /= "none"
                               THEN Raise(builders'[BuilderOf(c)].exc)
                               ELSE Ok(builders'[BuilderOf(c)].mentions)]
  /\ UNCHANGED <<pc, encoding, seqVars, codecVars, registryVars, builderVars,
                 ingestVars>>

ConcNext == \E c \in Calls : DecodeBegin(c) \/ DecodeIteration(c) \/ DecodeReturn(c)

ConcSpec == ConcInit /\ [][ConcNext]_vars

\* --------------------------------------------------------- ingestion of a file
\* ingest_conll_file has been called with a file, a scheme, a repair method
\* and the flag of the document boundaries.
IngestInit ==
  /\ pc = "ingest_call"
  /\ encoding \in EncodingNames
  /\ repair \in RepairArgs
  /\ ignore_document_boundaries \in BOOLEAN
  /\ file \in IngestFiles(encoding)
  /\ line_num = 0
  /\ sequence = <<>>
  /\ generator = NewGenerator
  /\ labels = <<>> /\ mentions = <<>> /\ sequence_length = 0
  /\ join_state = None /\ join_type = None /\ raw_label = <<>>
  /\ state_symbol = <<>> /\ lookup_name = <<>>
  /\ encoded = Unset
  /\ validation = Unset
  /\ repaired = Unset
  /\ revalidation = Unset
  /\ decoded = Unset
  /\ reencoded = Unset
  /\ rerepaired = Unset
  /\ join_result = Unset
  /\ split_result = Unset
  /\ state_valid = Unset
  /\ lookup_result = Unset
  /\ builder = NewBuilder
  /\ builder_idx = 0
  /\ builder_before = NewBuilder
  /\ builder_call = NoCall
  /\ calls = [c \in Calls |-> NoDecode]
  /\ builders = [c \in Calls |-> NewBuilder]

\* ingest_conll_file up to the call of ingest
IngestConllFile ==
  /\ pc = "ingest_call"
  /\ generator' = [generator EXCEPT !.exc = RepairSupported(encoding, repair).exc]
  /\ pc' = IF generator'.exc = "none" THEN "ingesting" ELSE "ingest_failed"
  /\ UNCHANGED <<encoding, seqVars, codecVars, registryVars, builderVars,
                 concVars, file, ignore_document_boundaries, line_num, sequence>>

\* _parse_file reads the next line; ingest handles what it yields.
IngestLine ==
  /\ pc = "ingesting"
  /\ line_num < Len(file)
  /\ line_num' = line_num + 1
  /\ sequence' = ParseLine(sequence, file[line_num + 1], line_num + 1).sequence
  /\ generator' = IngestBody(encoding, repair, ignore_document_boundaries,
                             generator,
                             ParseLine(sequence, file[line_num + 1], line_num + 1))
  /\ pc' = IF generator'.exc = "none" THEN "ingesting" ELSE "ingest_failed"
  /\ UNCHANGED <<encoding, seqVars, codecVars, registryVars, builderVars,
                 concVars, file, ignore_document_boundaries>>

\* _parse_file reaches the end of the file; ingest handles the last sequence
\* and yields the last document.
IngestEnd ==
  /\ pc = "ingesting"
  /\ line_num = Len(file)
  /\ sequence' = ParseEnd(sequence).sequence
  /\ generator' = IngestFinish(IngestBody(encoding, repair,
                                          ignore_document_boundaries,
                                          generator, ParseEnd(sequence)))
  /\ pc' = IF generator'.exc = "none" THEN "ingested" ELSE "ingest_failed"
  /\ UNCHANGED <<encoding, seqVars, codecVars, registryVars, builderVars,
                 concVars, file, ignore_document_boundaries, line_num>>

IngestNext == IngestConllFile \/ IngestLine \/ IngestEnd

IngestSpec == IngestInit /\ [][IngestNext]_vars

\* ------------------------------------------------------- helpers of the claims
\* State and entity type of a label that split_label accepts.
StateOf(name, label) == SplitLabel(name, label).val.state

TypeOf(name, label) == SplitLabel(name, label).val.type

\* outside + labels + outside
Padded(name, ls) == <<DialectOf(name).outside>> \o ls \o <<DialectOf(name).outside>>

\* Is the step from label a to label b a legal transition of the scheme?
LegalPair(name, a, b) ==
  IsValidTransition(name, StateOf(name, a), TypeOf(name, a),
                    StateOf(name, b), TypeOf(name, b))

HasInvalidState(name, ls) ==
  \E i \in 1..Len(ls) : ~IsValidState(name, StateOf(name, ls[i]))

TransitionErrors(errors) ==
  {j \in 1..Len(errors) : errors[j].cls = "InvalidTransitionError"}

StateErrors(errors) ==
  {j \in 1..Len(errors) : errors[j].cls = "InvalidStateError"}

\* ------------------------------------------------------------------------ C1
\* C1: for IOB, BIO, BIOES, BILOU, BMES and BMEOW, every length n and every
\* mention list in left-to-right order, pairwise non-overlapping and inside
\* [0, n), encode_mentions succeeds and decode_labels of its output returns
\* exactly that mention list.
C1_EncodeDecodeRoundTrip ==
  /\ (encoded /= Unset /\ encoding /= "IO") => encoded.exc = "none"
  /\ (pc = "decoded" /\ encoded /= Unset /\ encoding /= "IO")
       => decoded = Ok(mentions)

\* An IOB round trip of two adjacent mentions of one type has been made.
C1_Witness ==
  /\ pc = "decoded" /\ encoded /= Unset /\ encoding = "IOB"
  /\ Len(mentions) >= 2
  /\ mentions[1].end = mentions[2].start
  /\ mentions[1].type = mentions[2].type
  /\ decoded = Ok(mentions)

\* ------------------------------------------------------------------------ C2
\* C2: for every scheme and every label sequence on which validate_labels
\* reports zero errors, decode_labels returns a mention list and raises nothing.
C2_ValidationCompleteness ==
  (pc = "decoded" /\ ValidationErrors(encoding, labels) = Ok(<<>>))
    => decoded.exc = "none"

C4_RepairUsesRepairedHistory ==
  /\ (pc = "repaired" /\ repaired.exc = "none")
       => \A i \in 1..Len(labels) :
            LET prev == IF i = 1 THEN DialectOf(encoding).outside
                        ELSE repaired.val[i - 1]
            IN LegalPair(encoding, prev, labels[i])
                 <=> repaired.val[i] = labels[i]
  /\ (pc = "repaired" /\ encoding = "BIO" /\ repair = REPAIR_DISCARD
      /\ labels = << <<"I", "-", "X">>, <<"I", "-", "X">> >>)
       => /\ repaired = Ok(<< <<"O">>, <<"O">> >>)
          /\ Len(ValidationErrors(encoding, labels).val) = 1

\* BIO discard has rewritten a label that was legal in the original sequence:
\* two labels rewritten, one validation error.
C4_Witness ==
  /\ pc = "repaired" /\ encoding = "BIO" /\ repair = REPAIR_DISCARD
  /\ labels = << <<"I", "-", "X">>, <<"I", "-", "X">> >>
  /\ LegalPair(encoding, labels[1], labels[2])
  /\ repaired.exc = "none"
  /\ repaired.val[2] /= labels[2]

C6_ValidateExhaustive ==
  (pc = "validated" /\ validation.exc = "none")
    => LET errs == validation.val.errors
           n == Len(labels)
           ext == Padded(encoding, labels)
           Pos(e) == IF e.at_end THEN n + 1 ELSE e.idx
       IN /\ \A i \in 1..n :
               Cardinality({j \in StateErrors(errs) : errs[j].idx = i})
                 = IF IsValidState(encoding, StateOf(encoding, labels[i]))
                   THEN 0 ELSE 1
          /\ \A i \in 1..(n + 1) :
               Cardinality({j \in TransitionErrors(errs) : Pos(errs[j]) = i})
                 = IF LegalPair(encoding, ext[i], ext[i + 1]) THEN 0 ELSE 1
          /\ \A j \in 1..Len(errs) :
               /\ Pos(errs[j]) \in 1..(n + 1)
               /\ errs[j].idx \in 1..n
               /\ errs[j].label = labels[errs[j].idx]
               /\ errs[j].at_end => errs[j].idx = n
               /\ errs[j].cls = "InvalidTransitionError"
                    => /\ errs[j].prev_label = ext[Pos(errs[j])]
                       /\ errs[j].next_label = ext[Pos(errs[j]) + 1]
          /\ \A j \in 1..(Len(errs) - 1) :
               \/ Pos(errs[j]) < Pos(errs[j + 1])
               \/ /\ Pos(errs[j]) = Pos(errs[j + 1])
                  /\ errs[j].cls = "InvalidStateError"
                  /\ errs[j + 1].cls = "InvalidTransitionError"

\* A validation that went on after its first error: a state error, the
\* transition error of the same label and the end-of-sequence error.
C6_Witness ==
  /\ pc = "validated" /\ validation.exc = "none"
  /\ Len(validation.val.errors) >= 3
  /\ validation.val.errors[1].cls = "InvalidStateError"
  /\ validation.val.errors[2].cls = "InvalidTransitionError"
  /\ validation.val.errors[Len(validation.val.errors)].at_end

\* ------------------------------------------------------------------------ C7
\* Is labels[a..b] one well-formed chunk of the BIOES family: one single
\* label, or begin, zero or more inside, end, all of one type?
WellFormedChunk(name, ls, a, b) ==
  LET d == DialectOf(name)
  IN \/ a = b /\ StateOf(name, ls[a]) = d.single
     \/ /\ a < b
        /\ StateOf(name, ls[a]) = d.begin
        /\ StateOf(name, ls[b]) = d.end
        /\ \A k \in (a + 1)..(b - 1) : StateOf(name, ls[k]) = d.inside
        /\ \A k \in a..b : TypeOf(name, ls[k]) = TypeOf(name, ls[a])

\* C7: for BIOES, BILOU, BMES and BMEOW, a label sequence passes
\* validate_labels with zero errors only if every non-outside label belongs to
\* a well-formed chunk and a begin label is followed by an inside or end label
\* of the same type.
C7_ChunkGrammar ==
  (pc = "validated" /\ EncodingClass(encoding) = "BIOES"
   /\ validation.exc = "none" /\ validation.val.errors = <<>>)
    => LET d == DialectOf(encoding)
           n == Len(labels)
       IN /\ \A i \in 1..n :
               StateOf(encoding, labels[i]) /= d.outside
                 => \E a \in 1..i : \E b \in i..n :
                      WellFormedChunk(encoding, labels, a, b)
          /\ \A i \in 1..n :
               StateOf(encoding, labels[i]) = d.begin
                 => /\ i < n
                    /\ StateOf(encoding, labels[i + 1]) \in {d.inside, d.end}
                    /\ TypeOf(encoding, labels[i + 1]) = TypeOf(encoding, labels[i])

\* ------------------------------------------------------------- C8, C9 and C10
\* The builder when the decoding loop has consumed all labels but the last.
PrefixBuilder(name, ls) ==
  DecodeLoop(name, NewBuilder, SubSeq(ls, 1, Len(ls) - 1), 0)

\* The label before the last one (outside when there is none).
BeforeLast(name, ls) == Padded(name, ls)[Len(ls)]

\* Does the last label directly follow a begin or inside label of its own type?
LastContinuesSameType(name, ls) ==
  /\ StateOf(name, BeforeLast(name, ls))
       \in {DialectOf(name).begin, DialectOf(name).inside}
  /\ TypeOf(name, BeforeLast(name, ls)) = TypeOf(name, ls[Len(ls)])

\* Did validate_labels report an invalid transition into the last label?
ReportedAtLast(errors, n) ==
  \E j \in TransitionErrors(errors) : ~errors[j].at_end /\ errors[j].idx = n

\* C8: in IOB a label B-X is legal only directly after I-X or B-X of the same
\* type: validate_labels reports an invalid transition into every other B-X,
\* and decode_labels, having decoded the labels before it, raises
\* EncodingError on exactly those B-X labels.
C8_IOBBeginLegality ==
  (encoding = "IOB" /\ Len(labels) >= 1)
    => LET n == Len(labels)
           isBegin == StateOf(encoding, labels[n]) = DialectOf(encoding).begin
           legal == LastContinuesSameType(encoding, labels)
       IN /\ (pc = "validated" /\ validation.exc = "none" /\ isBegin)
               => (ReportedAtLast(validation.val.errors, n) <=> ~legal)
          /\ (pc = "decoded" /\ PrefixBuilder(encoding, labels).exc = "none")
               => (decoded.exc = "EncodingError" <=> (isBegin /\ ~legal))

\* IOB decoding has raised EncodingError on a begin label that follows a
\* label of another type.
C8_Witness ==
  /\ pc = "decoded" /\ encoding = "IOB" /\ Len(labels) >= 2
  /\ StateOf(encoding, labels[Len(labels)]) = DialectOf(encoding).begin
  /\ StateOf(encoding, BeforeLast(encoding, labels)) = DialectOf(encoding).inside
  /\ TypeOf(encoding, BeforeLast(encoding, labels))
       /= TypeOf(encoding, labels[Len(labels)])
  /\ PrefixBuilder(encoding, labels).exc = "none"
  /\ decoded.exc = "EncodingError"

\* C9: in BIO a label I-X is legal only directly after B-X or I-X of the same
\* type: validate_labels reports an invalid transition into every other I-X,
\* and decode_labels, having decoded the labels before it, raises
\* EncodingError (never an assertion failure) on exactly those I-X labels.
C9_BIOInsideLegality ==
  (encoding = "BIO" /\ Len(labels) >= 1)
    => LET n == Len(labels)
           isInside == StateOf(encoding, labels[n]) = DialectOf(encoding).inside
           legal == LastContinuesSameType(encoding, labels)
       IN /\ (pc = "validated" /\ validation.exc = "none" /\ isInside)
               => (ReportedAtLast(validation.val.errors, n) <=> ~legal)
          /\ (pc = "decoded" /\ PrefixBuilder(encoding, labels).exc = "none")
               => /\ decoded.exc = "EncodingError" <=> (isInside /\ ~legal)
                  /\ isInside => decoded.exc /= "AssertionError"

\* BIO decoding has raised EncodingError on an inside label at the start of
\* the sequence or after outside.
C9_Witness ==
  /\ pc = "decoded" /\ encoding = "BIO" /\ Len(labels) >= 1
  /\ StateOf(encoding, labels[Len(labels)]) = DialectOf(encoding).inside
  /\ StateOf(encoding, BeforeLast(encoding, labels)) = DialectOf(encoding).outside
  /\ PrefixBuilder(encoding, labels).exc = "none"
  /\ decoded.exc = "EncodingError"

\* The last label is an inside label and, the labels before it decoded, a
\* mention of another type is open.
IOBInsideMismatch ==
  /\ encoding = "IOB" /\ Len(labels) >= 1
  /\ StateOf(encoding, labels[Len(labels)]) = DialectOf(encoding).inside
  /\ PrefixBuilder(encoding, labels).exc = "none"
  /\ InMention(PrefixBuilder(encoding, labels))
  /\ PrefixBuilder(encoding, labels).entity_type
       /= TypeOf(encoding, labels[Len(labels)])

\* C10 as stated: in IOB decoding an inside label whose type differs from the
\* type of the open mention raises EncodingError.
C10_Original ==
  (pc = "decoded" /\ IOBInsideMismatch) => decoded.exc = "EncodingError"

\* C10 amended: in IOB decoding an inside label whose type differs from the
\* type of the open mention never raises EncodingError: it closes the open
\* mention at its index and opens a mention of its own type there (an empty
\* type fails the assertion of start_mention).
C10_IOBInsideTypeChange ==
  (pc = "decoded" /\ IOBInsideMismatch)
    => LET n == Len(labels)
           b == PrefixBuilder(encoding, labels)
           type == TypeOf(encoding, labels[n])
       IN IF type = <<>>
          THEN decoded.exc = "AssertionError"
          ELSE decoded = Ok(b.mentions
                            \o <<Mention(b.start_idx, n - 1, b.entity_type),
                                 Mention(n - 1, n, type)>>)

\* IOB decoding has gone through I-X I-Y and returned two mentions.
C10_Witness ==
  /\ pc = "decoded" /\ IOBInsideMismatch
  /\ TypeOf(encoding, labels[Len(labels)]) /= <<>>
  /\ decoded.exc = "none"
  /\ Len(decoded.val) >= 2

\* ----------------------------------------------------------------------- C11
\* The last label has one of the given states and, the labels before it
\* decoded, a mention of another type is open.
LastMismatchesOpen(name, ls, states) ==
  /\ Len(ls) >= 1
  /\ StateOf(name, ls[Len(ls)]) \in states
  /\ PrefixBuilder(name, ls).exc = "none"
  /\ InMention(PrefixBuilder(name, ls))
  /\ PrefixBuilder(name, ls).entity_type /= TypeOf(name, ls[Len(ls)])

\* C11: in BIOES-family decoding an inside or end label whose type differs
\* from the type of the open mention raises EncodingError and is never
\* absorbed into the open mention.
C11_BIOESContinuationTypeChecked ==
  (pc = "decoded" /\ EncodingClass(encoding) = "BIOES"
   /\ LastMismatchesOpen(encoding, labels,
                         {DialectOf(encoding).inside, DialectOf(encoding).end}))
    => decoded.exc = "EncodingError"

\* ----------------------------------------------------------------------- C12
\* The builder when the decoding loop has consumed all labels.
LoopBuilder(name, ls) == DecodeLoop(name, NewBuilder, ls, 0)

\* C12: in BIOES-family decoding a label sequence that ends while a mention
\* is still open fails the final assertion: decode_labels neither closes the
\* mention nor raises EncodingError.
C12_BIOESDanglingMentionAsserts ==
  (pc = "decoded" /\ EncodingClass(encoding) = "BIOES"
   /\ LoopBuilder(encoding, labels).exc = "none"
   /\ InMention(LoopBuilder(encoding, labels)))
    => decoded.exc = "AssertionError"

\* A BIOES-family sequence ending in begin, inside has been decoded.
C12_Witness ==
  /\ pc = "decoded" /\ EncodingClass(encoding) = "BIOES" /\ Len(labels) = 2
  /\ StateOf(encoding, labels[1]) = DialectOf(encoding).begin
  /\ StateOf(encoding, labels[2]) = DialectOf(encoding).inside
  /\ LoopBuilder(encoding, labels).exc = "none"
  /\ InMention(LoopBuilder(encoding, labels))
  /\ decoded.exc = "AssertionError"

\* ----------------------------------------------------------------------- C13
\* C13: in IO, IOB and BIO decoding a mention that is still open after the
\* last label is closed with end index len(labels), and on every successful
\* return no mention is open in the builder.
C13_OpenMentionClosedAtEnd ==
  (pc = "decoded" /\ EncodingClass(encoding) /= "BIOES")
    => LET b == LoopBuilder(encoding, labels)
       IN /\ (b.exc = "none" /\ InMention(b))
               => decoded = Ok(Append(b.mentions,
                                      Mention(b.start_idx, Len(labels),
                                              b.entity_type)))
          /\ decoded.exc = "none"
               => ~InMention(DecodeFinish(encoding, b, labels))

\* A BIO sequence whose last label is inside a mention has been decoded: the
\* last mention ends at len(labels).
C13_Witness ==
  /\ pc = "decoded" /\ encoding = "BIO" /\ Len(labels) >= 2
  /\ InMention(LoopBuilder(encoding, labels))
  /\ StateOf(encoding, labels[Len(labels)]) = DialectOf(encoding).inside
  /\ decoded.exc = "none"
  /\ decoded.val[Len(decoded.val)].end = Len(labels)

\* ----------------------------------------------------------------------- C14
\* C14: for IO, IOB and BIO every label sequence that decode_labels decodes
\* successfully gets zero errors from validate_labels.
C14_DecodableIsValid ==
  (pc = "decoded" /\ EncodingClass(encoding) /= "BIOES" /\ decoded.exc = "none")
    => ValidationErrors(encoding, labels) = Ok(<<>>)

\* ----------------------------------------------------------------------- C15
\* The mention list after merging every run of mentions of one type in which
\* each mention starts where the one before it ends.
RECURSIVE MergeAdjacent(_)
MergeAdjacent(ms) ==
  IF Len(ms) <= 1 THEN ms
  ELSE IF ms[1].end = ms[2].start /\ ms[1].type = ms[2].type
  THEN MergeAdjacent(<<Mention(ms[1].start, ms[2].end, ms[1].type)>>
                     \o SubSeq(ms, 3, Len(ms)))
  ELSE <<ms[1]>> \o MergeAdjacent(Tail(ms))

\* C15: for every ordered non-overlapping mention list inside [0, n), IO
\* decode_labels(encode_mentions(mentions, n)) is the list after merging every
\* run of adjacent mentions of one type; adjacent mentions of different types
\* and mentions separated by outside stay separate.
C15_IORoundTripMerges ==
  /\ (encoded /= Unset /\ encoding = "IO") => encoded.exc = "none"
  /\ (pc = "decoded" /\ encoded /= Unset /\ encoding = "IO")
       => decoded = Ok(MergeAdjacent(mentions))

\* An IO round trip of X, X, Y, pairwise adjacent: the two X mentions came
\* back as one, the Y mention stayed separate.
C15_Witness ==
  /\ pc = "decoded" /\ encoded /= Unset /\ encoding = "IO"
  /\ Len(mentions) = 3
  /\ mentions[1].end = mentions[2].start /\ mentions[1].type = mentions[2].type
  /\ mentions[2].end = mentions[3].start /\ mentions[2].type /= mentions[3].type
  /\ decoded.exc = "none"
  /\ Len(decoded.val) = 2

\* ----------------------------------------------------------------------- C16
\* C16: for every scheme and every label sequence that validates with zero
\* errors and decodes successfully,
\* encode_mentions(decode_labels(labels), len(labels)) == labels.
C16_DecodeEncodeRoundTrip ==
  (pc = "reencoded" /\ ValidationErrors(encoding, labels) = Ok(<<>>))
    => reencoded = Ok(labels)

\* A valid IOB sequence with a begin label between two mentions of one type
\* has been decoded and encoded back.
C16_Witness ==
  /\ pc = "reencoded" /\ encoding = "IOB" /\ encoded = Unset
  /\ ValidationErrors(encoding, labels) = Ok(<<>>)
  /\ \E i \in 2..Len(labels) :
       StateOf(encoding, labels[i]) = DialectOf(encoding).begin
  /\ reencoded = Ok(labels)

\* ----------------------------------------------------------------------- C17
\* C17: for every scheme, every non-outside state symbol s of its dialect and
\* every non-empty type t, also one that contains the delimiter,
\* split_label(join_label(s, t)) == (s, t); and
\* split_label(join_label(outside, None)) == (outside, None).
C17_SplitJoinInverse ==
  ((join_state /= DialectOf(encoding).outside /\ Truthy(join_type))
   \/ (join_state = DialectOf(encoding).outside /\ join_type = None))
    => /\ pc = "joined" => join_result.exc = "none"
       /\ pc = "rejoined"
            => split_result = Ok([state |-> join_state, type |-> join_type])

\* A state joined with a type that contains the delimiter has been split back.
C17_Witness ==
  /\ pc = "rejoined"
  /\ join_state = DialectOf(encoding).inside
  /\ join_type = <<"X", DialectOf(encoding).label_delim, "Y">>
  /\ split_result = Ok([state |-> join_state, type |-> join_type])

\* ----------------------------------------------------------------------- C18
HasDelim(name, label) ==
  \E i \in 1..Len(label) : label[i] = DialectOf(name).label_delim

\* Is the part of label before its first delimiter the outside symbol?
OutsidePrefixed(name, label) ==
  LET n == Len(DialectOf(name).outside)
  IN /\ Len(label) > n
     /\ SubSeq(label, 1, n) = DialectOf(name).outside
     /\ label[n + 1] = DialectOf(name).label_delim

C19_BIORewriteRule ==
  (pc = "repaired" /\ encoding = "BIO"
   /\ repair \in {REPAIR_CONLL, REPAIR_DISCARD})
    => /\ repaired.exc = "none"
       /\ \A i \in 1..Len(labels) :
            repaired.val[i] /= labels[i]
              => repaired.val[i] =
                   IF repair = REPAIR_CONLL
                   THEN DialectOf(encoding).begin
                          \o <<DialectOf(encoding).label_delim>>
                          \o TypeOf(encoding, labels[i])
                   ELSE DialectOf(encoding).outside

\* ----------------------------------------------------------------------- C20
\* C20: in IOB repair_labels with conlleval, for every label sequence whose
\* labels can be split, only a begin label is ever found illegal and it is
\* rewritten to inside + the same type; the assertion that the illegal
\* label's state is begin never fails.
C20_IOBRewriteRule ==
  (pc = "repaired" /\ encoding = "IOB" /\ repair = REPAIR_CONLL)
    => /\ repaired.exc = "none"
       /\ \A i \in 1..Len(labels) :
            repaired.val[i] /= labels[i]
              => /\ StateOf(encoding, labels[i]) = DialectOf(encoding).begin
                 /\ repaired.val[i] =
                      DialectOf(encoding).inside
                        \o <<DialectOf(encoding).label_delim>>
                        \o TypeOf(encoding, labels[i])

\* ----------------------------------------------------------------------- C21
\* Did repair_labels refuse the call (the method or the scheme)?
RepairRefused(res) == res.exc \in {"ValueError", "NotImplementedError"}

\* C21: repair_labels fails and returns no labels when the scheme does not
\* support the method: 'none' and an unknown method raise ValueError for BIO
\* and IOB, discard raises ValueError for IOB, IO and the BIOES family fail on
\* every call; supported_repair_methods never contains a method that
\* repair_labels rejects.
C21_UnsupportedRepairFails ==
  pc = "repaired"
    => /\ (EncodingClass(encoding) \in {"BIO", "IOB"}
           /\ repair \notin {REPAIR_CONLL, REPAIR_DISCARD})
            => repaired = Raise("ValueError")
       /\ (encoding = "IOB" /\ repair = REPAIR_DISCARD)
            => repaired = Raise("ValueError")
       /\ EncodingClass(encoding) \in {"IO", "BIOES"}
            => repaired = Raise("NotImplementedError")
       /\ (SupportedRepairMethods(encoding).exc = "none"
           /\ repair \in SupportedRepairMethods(encoding).val)
            => ~RepairRefused(repaired)
       /\ RepairRefused(repaired) => repaired.val = <<>>

\* IOB repair_labels has refused the method discard on labels it would
\* otherwise have rewritten.
C21_Witness ==
  /\ pc = "repaired" /\ encoding = "IOB" /\ repair = REPAIR_DISCARD
  /\ Len(labels) >= 1
  /\ StateOf(encoding, labels[1]) = DialectOf(encoding).begin
  /\ repaired = Raise("ValueError")

\* ----------------------------------------------------------------------- C22
\* What holds of the labels repair_labels returned.
RepairedFrame ==
  /\ (pc \in {"repaired", "rerepaired"} /\ repaired.exc = "none")
       => /\ Len(repaired.val) = Len(labels)
          /\ \A i \in 1..Len(labels) :
               LegalPair(encoding,
                         IF i = 1 THEN DialectOf(encoding).outside
                         ELSE repaired.val[i - 1],
                         labels[i])
                 => repaired.val[i] = labels[i]
          /\ ValidationErrors(encoding, labels) = Ok(<<>>)
               => repaired.val = labels
  /\ pc = "rerepaired" => rerepaired = repaired

\* C22: repair_labels returns a new sequence of the same length and leaves
\* its input as it was; a label whose transition from the already repaired
\* previous label is legal is copied unchanged, so a sequence with zero
\* validation errors is returned unchanged and
\* repair_labels(repair_labels(x, m), m) == repair_labels(x, m).
C22_RepairFrame ==
  /\ []RepairedFrame
  /\ [][pc' \in {"repaired", "rerepaired"} => labels' = labels]_vars

\* BIO conlleval has rewritten a label, and repairing its output again has
\* returned the same labels.
C22_Witness ==
  /\ pc = "rerepaired" /\ encoding = "BIO" /\ repair = REPAIR_CONLL
  /\ repaired.exc = "none"
  /\ repaired.val /= labels
  /\ rerepaired = repaired

\* ----------------------------------------------------------------------- C23
\* C23: validate_labels calls the scheme's repair_labels, and its result
\* carries repaired labels, exactly when a repair method was passed and at
\* least one error was found; with no errors or no repair method the result
\* carries no repaired labels and repair_labels is not called.
C23_RepairOnlyOnErrors ==
  (pc = "validated" /\ ValidationErrors(encoding, labels).exc = "none")
    => IF ValidationErrors(encoding, labels).val /= <<>> /\ MethodTruthy(repair)
       THEN IF RepairLabels(encoding, labels, repair).exc = "none"
            THEN /\ validation.exc = "none"
                 /\ validation.val.repaired_labels
                      = RepairLabels(encoding, labels, repair).val
                 /\ validation.val.repaired_labels /= <<>>
            ELSE validation = Raise(RepairLabels(encoding, labels, repair).exc)
       ELSE /\ validation.exc = "none"
            /\ validation.val.repaired_labels = <<>>

\* validate_labels with a repair method has found nothing to repair in a
\* scheme whose repair_labels fails on every call, and has returned.
C23_Witness ==
  /\ pc = "validated" /\ EncodingClass(encoding) = "BIOES"
  /\ repair = REPAIR_CONLL
  /\ Len(labels) >= 2
  /\ RepairLabels(encoding, labels, repair).exc = "NotImplementedError"
  /\ validation.exc = "none"
  /\ validation.val.errors = <<>>
  /\ validation.val.repaired_labels = <<>>

\* ----------------------------------------------------------------------- C24
\* Can the label not be split: no delimiter and not the outside symbol, or
\* the outside symbol carrying a type?
Unsplittable(name, label) ==
  \/ ~HasDelim(name, label) /\ label /= DialectOf(name).outside
  \/ OutsidePrefixed(name, label)

\* C24: validate_labels does not collect parse errors: when the sequence has
\* a label that cannot be split it raises EncodingError and produces no
\* validation result, whatever errors were collected before; a sequence whose
\* labels can all be split never ends in EncodingError.
C24_UnsplittableLabelRaises ==
  pc = "raw_validated"
    => IF \E i \in 1..Len(labels) : Unsplittable(encoding, labels[i])
       THEN validation = Raise("EncodingError")
       ELSE validation.exc /= "EncodingError"

\* BIO validation had an error to report for the first label (inside after
\* outside) when it reached a bare type, and raised EncodingError.
C24_Witness ==
  /\ pc = "raw_validated" /\ encoding = "BIO" /\ Len(labels) = 2
  /\ ValidationErrors(encoding, <<labels[1]>>).exc = "none"
  /\ ValidationErrors(encoding, <<labels[1]>>).val /= <<>>
  /\ labels[2] = <<"X">>
  /\ validation = Raise("EncodingError")

\* ----------------------------------------------------------------------- C25
\* The mentions whose span covers the 0-based position pos.
Covering(ms, pos) ==
  {k \in 1..Len(ms) : ms[k].start <= pos /\ pos < ms[k].end}

\* C25: for every scheme and every ordered non-overlapping mention list
\* inside [0, n), encode_mentions(mentions, n) returns exactly n labels; a
\* position is labelled outside iff no mention covers it, and every covered
\* position carries the type of the mention that covers it.
C25_EncodeCoversSpans ==
  encoded /= Unset
    => /\ encoded.exc = "none"
       /\ Len(encoded.val) = sequence_length
       /\ \A pos \in 0..(sequence_length - 1) :
            /\ encoded.val[pos + 1] = DialectOf(encoding).outside
                 <=> Covering(mentions, pos) = {}
            /\ \A k \in Covering(mentions, pos) :
                 TypeOf(encoding, encoded.val[pos + 1]) = mentions[k].type

\* A sequence of three positions with one mention over the last two has
\* been encoded.
C25_Witness ==
  /\ encoded /= Unset /\ sequence_length = 3
  /\ Len(mentions) = 1
  /\ mentions[1].start = 1 /\ mentions[1].end = 3
  /\ encoded.exc = "none"
  /\ encoded.val[1] = DialectOf(encoding).outside
  /\ encoded.val[3] /= DialectOf(encoding).outside

\* ----------------------------------------------------------------------- C26
\* Does mention k start where mention k - 1 of the same type ends?
FollowsSameType(ms, k) ==
  /\ k > 1
  /\ ms[k].start = ms[k - 1].end
  /\ ms[k].type = ms[k - 1].type

\* C26: IOB encoding labels the first token of a mention begin + type iff the
\* mention starts at the end index of the immediately preceding mention and
\* has its type; in every other case (first mention, gap, other type) every
\* token of the mention is labelled inside + type.
C26_IOBBeginOnlyWhenAdjacent ==
  (encoded /= Unset /\ encoding = "IOB")
    => /\ encoded.exc = "none"
       /\ \A k \in 1..Len(mentions) :
            \A pos \in mentions[k].start..(mentions[k].end - 1) :
              encoded.val[pos + 1] =
                (IF pos = mentions[k].start /\ FollowsSameType(mentions, k)
                 THEN DialectOf(encoding).begin
                 ELSE DialectOf(encoding).inside)
                  \o <<DialectOf(encoding).label_delim>> \o mentions[k].type

\* IOB has encoded X, Y, Y, pairwise adjacent: inside for the Y mention that
\* follows X, begin for the Y mention that follows Y.
C26_Witness ==
  /\ encoded /= Unset /\ encoding = "IOB" /\ Len(mentions) = 3
  /\ mentions[1].end = mentions[2].start /\ mentions[1].type /= mentions[2].type
  /\ FollowsSameType(mentions, 3)
  /\ encoded.exc = "none"
  /\ StateOf(encoding, encoded.val[mentions[2].start + 1])
       = DialectOf(encoding).inside
  /\ StateOf(encoding, encoded.val[mentions[3].start + 1])
       = DialectOf(encoding).begin

\* ----------------------------------------------------------------------- C27
\* The begin, inside, end and single symbols of the BIOES family by name.
FamilySymbols(name) ==
  CASE name = "BIOES" -> [begin |-> "B", inside |-> "I", end |-> "E", single |-> "S"]
    [] name = "BILOU" -> [begin |-> "B", inside |-> "I", end |-> "L", single |-> "U"]
    [] name = "BMES" -> [begin |-> "B", inside |-> "M", end |-> "E", single |-> "S"]
    [] name = "BMEOW" -> [begin |-> "B", inside |-> "M", end |-> "E", single |-> "W"]

\* C27: BIOES-family encoding labels a mention of length 1 with the single
\* symbol; a longer mention gets begin on its first token, end on its last
\* and inside on every token in between, with the symbols of the dialect
\* (BILOU end L and single U, BMES inside M, BMEOW inside M and single W).
C27_BIOESFamilyEncoding ==
  (encoded /= Unset /\ EncodingClass(encoding) = "BIOES")
    => /\ encoded.exc = "none"
       /\ \A k \in 1..Len(mentions) :
            \A pos \in mentions[k].start..(mentions[k].end - 1) :
              encoded.val[pos + 1] =
                << (CASE mentions[k].end - mentions[k].start = 1
                           -> FamilySymbols(encoding).single
                      [] mentions[k].end - mentions[k].start > 1
                         /\ pos = mentions[k].start
                           -> FamilySymbols(encoding).begin
                      [] mentions[k].end - mentions[k].start > 1
                         /\ pos = mentions[k].end - 1
                           -> FamilySymbols(encoding).end
                      [] OTHER -> FamilySymbols(encoding).inside),
                   "-" >> \o mentions[k].type

\* BMEOW has encoded a mention of length 3 (B, M, E) or one of length 1 (W)
\* followed by one of length 2.
C27_Witness ==
  /\ encoded /= Unset /\ encoding = "BMEOW" /\ encoded.exc = "none"
  /\ Len(mentions) = 2
  /\ mentions[1] = Mention(0, 1, <<"X">>)
  /\ mentions[2] = Mention(1, 3, <<"Y">>)
  /\ encoded.val = << <<"W", "-", "X">>, <<"B", "-", "Y">>, <<"E", "-", "Y">> >>

\* ----------------------------------------------------------------------- C28
\* The states each scheme is said to accept.
AcceptedStates(name) ==
  CASE name = "IO" -> {<<"I">>, <<"O">>}
    [] name \in {"IOB", "BIO"} -> {<<"B">>, <<"I">>, <<"O">>}
    [] name = "BIOES" -> {<<"B">>, <<"I">>, <<"E">>, <<"S">>, <<"O">>}
    [] name = "BILOU" -> {<<"B">>, <<"I">>, <<"L">>, <<"U">>, <<"O">>}
    [] name = "BMES" -> {<<"B">>, <<"M">>, <<"E">>, <<"S">>, <<"O">>}
    [] name = "BMEOW" -> {<<"B">>, <<"M">>, <<"E">>, <<"W">>, <<"O">>}

\* C28: is_valid_state accepts exactly the symbols the scheme uses: IO {I, O};
\* IOB and BIO {B, I, O}; BIOES {B, I, E, S, O}; BILOU {B, I, L, U, O};
\* BMES {B, M, E, S, O}; BMEOW {B, M, E, W, O}; every other state is
\* rejected.
C28_ValidStateSets ==
  (pc = "state_checked")
    => state_valid = Ok(state_symbol \in AcceptedStates(encoding))

\* BMES has rejected the state I, which most other schemes accept.
C28_Witness ==
  /\ pc = "state_checked" /\ encoding = "BMES"
  /\ state_symbol = <<"I">> /\ state_valid = Ok(FALSE)

\* ----------------------------------------------------------------------- C29
\* The seven registered names with the state machine and the dialect symbols
\* each is said to stand for.
RegisteredNames ==
  { [key |-> <<"B", "I", "O">>, enc |-> "BIO", cls |-> "BIO", inside |-> <<"I">>, end |-> <<"E">>, single |-> <<"S">>],
    [key |-> <<"B", "I", "O", "E", "S">>, enc |-> "BIOES", cls |-> "BIOES", inside |-> <<"I">>, end |-> <<"E">>, single |-> <<"S">>],
    [key |-> <<"B", "I", "L", "O", "U">>, enc |-> "BILOU", cls |-> "BIOES", inside |-> <<"I">>, end |-> <<"L">>, single |-> <<"U">>],
    [key |-> <<"B", "M", "E", "S">>, enc |-> "BMES", cls |-> "BIOES", inside |-> <<"M">>, end |-> <<"E">>, single |-> <<"S">>],
    [key |-> <<"B", "M", "E", "O", "W">>, enc |-> "BMEOW", cls |-> "BIOES", inside |-> <<"M">>, end |-> <<"E">>, single |-> <<"W">>],
    [key |-> <<"I", "O">>, enc |-> "IO", cls |-> "IO", inside |-> <<"I">>, end |-> <<"E">>, single |-> <<"S">>],
    [key |-> <<"I", "O", "B">>, enc |-> "IOB", cls |-> "IOB", inside |-> <<"I">>, end |-> <<"E">>, single |-> <<"S">>] }

\* Are a and b the same letter in either case?
SameLetter(a, b) ==
  \/ a = b
  \/ \E i \in 1..Len(LowerLetters) :
       {a, b} = {LowerLetters[i], UpperLetters[i]}

\* Is name a spelling of key in some mix of upper and lower case?
IsCaseVariant(name, key) ==
  /\ Len(name) = Len(key)
  /\ \A i \in 1..Len(key) : SameLetter(name[i], key[i])

\* C29: get_encoding is a case-insensitive lookup in a registry of seven
\* names: every case variant of a registered name returns the instance of
\* that name, BILOU, BMES and BMEOW being the BIOES state machine with their
\* own dialect, and every other name raises ValueError.
C29_GetEncodingLookup ==
  (pc = "looked_up")
    => /\ \A r \in RegisteredNames :
            IsCaseVariant(lookup_name, r.key)
              => /\ lookup_result = Ok(r.enc)
                 /\ EncodingClass(lookup_result.val) = r.cls
                 /\ DialectOf(lookup_result.val).inside = r.inside
                 /\ DialectOf(lookup_result.val).end = r.end
                 /\ DialectOf(lookup_result.val).single = r.single
       /\ (~\E r \in RegisteredNames : IsCaseVariant(lookup_name, r.key))
            => lookup_result = Raise("ValueError")

\* The name bMeOw has been looked up and the BMEOW instance returned.
C29_Witness ==
  /\ pc = "looked_up"
  /\ lookup_name = <<"b", "M", "e", "O", "w">>
  /\ lookup_result = Ok("BMEOW")

\* ----------------------------------------------------------------------- C30
\* C30: start_mention fails when a mention is already open and end_mention
\* fails when none is open; a failed call leaves start_idx, entity_type and
\* the finished mentions unchanged; a successful end_mention appends exactly
\* one mention (open start, given end, open type) and closes the builder.
C30_BuilderGuards ==
  (builder_call.op /= "none")
    => /\ (builder_call.op = "start" /\ builder_before.start_idx /= NoIdx)
            => builder.exc /= "none"
       /\ (builder_call.op = "end" /\ builder_before.start_idx = NoIdx)
            => builder.exc /= "none"
       /\ (builder.exc /= "none")
            => /\ builder.start_idx = builder_before.start_idx
               /\ builder.entity_type = builder_before.entity_type
               /\ builder.mentions = builder_before.mentions
       /\ (builder_call.op = "end" /\ builder.exc = "none")
            => /\ builder.mentions =
                    Append(builder_before.mentions,
                           Mention(builder_before.start_idx, builder_call.idx,
                                   builder_before.entity_type))
               /\ builder.start_idx = NoIdx
               /\ builder.entity_type = None

\* After one mention was finished and a second opened, start_mention was
\* called again and failed.
C30_Witness ==
  /\ pc = "builder_failed"
  /\ builder_call.op = "start"
  /\ builder.exc = "AssertionError"
  /\ builder.mentions = <<Mention(0, 1, <<"X">>)>>
  /\ builder.start_idx = 1
  /\ builder.entity_type = <<"Y">>

\* ----------------------------------------------------------------------- C31
\* Are the start index and the entity type of b both set or both absent, and
\* does in_mention() say which?
TwoState(b) ==
  /\ (b.start_idx = NoIdx) <=> (b.entity_type = None)
  /\ InMention(b) <=> (b.start_idx /= NoIdx /\ b.entity_type /= None)

\* C31: after any sequence of start_mention and end_mention calls, failed or
\* not, start_idx and entity_type are both set or both absent, and
\* in_mention() is true iff both are set; the same holds of the builder of
\* decode_labels after every prefix of the labels.
C31_BuilderTwoState ==
  /\ TwoState(builder)
  /\ (pc = "decoded")
       => \A k \in 0..Len(labels) :
            TwoState(LoopBuilder(encoding, SubSeq(labels, 1, k)))

\* A second mention is open after the first was finished.
C31_Witness ==
  /\ pc = "building"
  /\ builder_call.op = "start"
  /\ Len(builder.mentions) = 1
  /\ builder.start_idx = 2
  /\ builder.entity_type = <<"X">>

\* ----------------------------------------------------------------------- C32
\* Are the mentions ms in strictly increasing span order, pairwise
\* non-overlapping, and each span inside [0, n) and non-empty?
OrderedWithin(ms, n) ==
  /\ \A i \in 1..Len(ms) : 0 <= ms[i].start /\ ms[i].start < ms[i].end /\ ms[i].end <= n
  /\ \A i \in 1..(Len(ms) - 1) : ms[i].end <= ms[i + 1].start
  /\ \A i, j \in 1..Len(ms) :
       i /= j => (ms[i].end <= ms[j].start \/ ms[j].end <= ms[i].start)

\* C32: for every scheme and every label sequence that decode_labels accepts,
\* the returned mentions are in strictly increasing span order, pairwise
\* non-overlapping, and each span has 0 <= start < end <= len(labels); the
\* mentions finished after every prefix of the labels are so within that
\* prefix.
C32_DecodedMentionsOrdered ==
  (pc = "decoded" /\ decoded.exc = "none")
    => /\ OrderedWithin(decoded.val, Len(labels))
       /\ \A k \in 0..Len(labels) :
            OrderedWithin(LoopBuilder(encoding, SubSeq(labels, 1, k)).mentions, k)

\* BIO has decoded two adjacent mentions, the second of two labels.
C32_Witness ==
  /\ pc = "decoded" /\ encoding = "BIO" /\ decoded.exc = "none"
  /\ Len(labels) = 3
  /\ decoded.val = <<Mention(0, 1, <<"X">>), Mention(1, 3, <<"Y">>)>>

\* ----------------------------------------------------------------------- C33
\* C33: the calls share no mutable state: every decode call works on its own
\* mention builder and on the tables of the Encoding, which no call writes, so
\* in every interleaving of the steps of two calls on the same Encoding each
\* call returns what it returns when it runs alone.
C33_CallsIndependent ==
  \A c \in Calls :
    calls[c].stage = "done"
      => calls[c].result = DecodeLabels(encoding, calls[c].labels)

\* Call 1 has returned a mention of two labels after call 2 had left an
\* exception in its own builder, and call 2 has not returned yet.
C33_Witness ==
  /\ pc = "concurrent"
  /\ calls[1].stage = "done"
  /\ calls[1].result = Ok(<<Mention(0, 2, <<"X">>)>>)
  /\ calls[2].stage = "loop"
  /\ calls[2].idx = 1
  /\ builders[2].exc /= "none"

\* ----------------------------------------------------------------------- C34
\* Does some document, yielded or being filled, hold the sequence that
\* starts at line n?
Holds(g, n) ==
  \/ \E i \in 1..Len(g.document) : g.document[i].line_num = n
  \/ \E k \in 1..Len(g.yielded) :
       \E i \in 1..Len(g.yielded[k]) : g.yielded[k][i].line_num = n

\* C34: ingest raises EncodingError for every sequence whose labels hold an
\* invalid state, whether or not a repair method was given, and neither
\* decodes nor yields that sequence or its repaired labels.
C34_InvalidStateStopsIngestion ==
  (generator.last.validated
   /\ HasInvalidState(encoding, generator.last.labels_in))
    => /\ pc = "ingest_failed"
       /\ generator.exc = "EncodingError"
       /\ ~generator.last.decode_called
       /\ ~Holds(generator, generator.last.line_num)

\* ----------------------------------------------------------------------- C35
\* Were the labels ls handed to decode_labels the labels li as read, these
\* having no validation error, or else the repair of li by the method given?
DecodedWhatWasValidated(name, method, li, ls) ==
  /\ ValidationErrors(name, li).exc = "none"
  /\ \/ ValidationErrors(name, li).val = <<>> /\ ls = li
     \/ /\ ValidationErrors(name, li).val /= <<>>
        /\ MethodTruthy(method)
        /\ RepairLabels(name, li, method) = Ok(ls)

\* C35: ingest calls decode_labels only after the validation of the sequence,
\* and only on labels that had no validation error or on the repaired labels;
\* with no repair method a validation error raises EncodingError before any
\* decoding; an EncodingError of decode_labels ends the ingestion with a
\* ValueError and the sequence is not kept.
C35_ValidateRepairDecode ==
  generator.last.validated
    => /\ generator.last.decode_called
            => DecodedWhatWasValidated(encoding, repair,
                                       generator.last.labels_in,
                                       generator.last.labels)
       /\ (/\ ~MethodTruthy(repair)
           /\ ValidationErrors(encoding, generator.last.labels_in).exc = "none"
           /\ ValidationErrors(encoding, generator.last.labels_in).val /= <<>>)
            => /\ pc = "ingest_failed"
               /\ generator.exc = "EncodingError"
               /\ ~generator.last.decode_called
       /\ (/\ generator.last.decode_called
           /\ DecodeLabels(encoding, generator.last.labels).exc = "EncodingError")
            => /\ pc = "ingest_failed"
               /\ generator.exc = "ValueError"
               /\ ~Holds(generator, generator.last.line_num)

\* BIO with conlleval has read a sequence I-X, repaired it to B-X, decoded
\* the repaired labels and kept the sequence.
C35_Witness ==
  /\ encoding = "BIO" /\ repair = REPAIR_CONLL
  /\ generator.last.labels_in = << <<"I", "-", "X">> >>
  /\ generator.last.decode_called
  /\ generator.last.labels = << <<"B", "-", "X">> >>
  /\ generator.last.mentions = <<Mention(0, 1, <<"X">>)>>
  /\ Holds(generator, generator.last.line_num)

\* ----------------------------------------------------------------------- C39
\* The line numbers at which a sequence of the file starts: a token line that
\* is the first line or follows a blank line or a document start.
SequenceStarts(f) ==
  {i \in 1..Len(f) :
     /\ f[i] \notin {BlankLine, DocstartLine}
     /\ (i = 1 \/ f[i - 1] \in {BlankLine, DocstartLine})}

RECURSIVE Flatten(_)
Flatten(docs) ==
  IF docs = <<>> THEN <<>> ELSE Head(docs) \o Flatten(Tail(docs))

\* Is there a document start strictly between lines a and b of the file?
DocstartBetween(f, a, b) ==
  \E i \in (a + 1)..(b - 1) : f[i] = DocstartLine

\* C39: ingest never yields an empty document; when it ends normally, every
\* sequence of the file is in exactly one yielded document and the sequences
\* are in file order; with ignore_document_boundaries all of them are in one
\* document; without it two consecutive sequences are in different documents
\* exactly when a document start lies between them.
C39_DocumentGrouping ==
  /\ \A d \in 1..Len(generator.yielded) : generator.yielded[d] /= <<>>
  /\ pc = "ingested"
       => /\ generator.document = <<>>
          /\ \A k \in 1..(Len(Flatten(generator.yielded)) - 1) :
                Flatten(generator.yielded)[k].line_num
                  < Flatten(generator.yielded)[k + 1].line_num
          /\ {Flatten(generator.yielded)[k].line_num :
                 k \in 1..Len(Flatten(generator.yielded))} = SequenceStarts(file)
          /\ ignore_document_boundaries => Len(generator.yielded) <= 1
          /\ ~ignore_document_boundaries
               => /\ \A d \in 1..(Len(generator.yielded) - 1) :
                        DocstartBetween(file,
                          generator.yielded[d][Len(generator.yielded[d])].line_num,
                          generator.yielded[d + 1][1].line_num)
                  /\ \A d \in 1..Len(generator.yielded) :
                        \A k \in 1..(Len(generator.yielded[d]) - 1) :
                          ~DocstartBetween(file,
                             generator.yielded[d][k].line_num,
                             generator.yielded[d][k + 1].line_num)

\* A file of two documents was ingested with the boundaries kept.
C39_Witness ==
  /\ pc = "ingested"
  /\ ~ignore_document_boundaries
  /\ Len(generator.yielded) = 2

\* ----------------------------------------------------------------------- C36
\* C36: the labels encode_mentions returns for an ordered, non-overlapping
\* mention list inside [0, n) pass validate_labels with no error, in every
\* scheme and under every repair argument.
C36_EncodedLabelsValid ==
  (pc = "validated" /\ encoded.exc = "none")
    => /\ validation.exc = "none"
       /\ validation.val.labels = encoded.val
       /\ validation.val.errors = <<>>

\* Two adjacent mentions of one type, the second longer than one token, were
\* encoded and the labels validated.
C36_Witness ==
  /\ pc = "validated"
  /\ encoded.exc = "none"
  /\ Len(mentions) = 2
  /\ mentions[1].end = mentions[2].start
  /\ mentions[1].type = mentions[2].type
  /\ mentions[2].end - mentions[2].start > 1

\* ----------------------------------------------------------------------- C37
\* The entity types a transition is looked up with.
TransitionTypes == Types \cup {None}

\* C37: in every scheme, an invalid-state error of validate_labels is followed
\* at once by an invalid-transition error for the same label (the step from
\* the label before it), and the step out of that label, to the next label or
\* to the outside after the sequence, is reported as an invalid transition
\* too; a state that is_valid_state rejects is in no legal transition.
C37_InvalidStateImpliesTransitions ==
  /\ (pc = "validated" /\ validation.exc = "none")
       => \A j \in StateErrors(validation.val.errors) :
            /\ j + 1 <= Len(validation.val.errors)
            /\ validation.val.errors[j + 1].cls = "InvalidTransitionError"
            /\ validation.val.errors[j + 1].idx = validation.val.errors[j].idx
            /\ ~validation.val.errors[j + 1].at_end
            /\ validation.val.errors[j + 1].next_label
                 = validation.val.errors[j].label
            /\ \E k \in TransitionErrors(validation.val.errors) :
                 /\ validation.val.errors[k].prev_label
                      = validation.val.errors[j].label
                 /\ IF validation.val.errors[j].idx < Len(labels)
                    THEN /\ validation.val.errors[k].idx
                              = validation.val.errors[j].idx + 1
                         /\ ~validation.val.errors[k].at_end
                    ELSE validation.val.errors[k].at_end
  /\ (pc = "state_checked" /\ state_valid = Ok(FALSE))
       => \A other \in StateSymbols :
            \A t1 \in TransitionTypes :
              \A t2 \in TransitionTypes :
                /\ ~IsValidTransition(encoding, state_symbol, t1, other, t2)
                /\ ~IsValidTransition(encoding, other, t1, state_symbol, t2)

\* A label with a state outside the scheme was validated in the middle of a
\* sequence and as its last label.
C37_Witness ==
  /\ pc = "validated"
  /\ validation.exc = "none"
  /\ \E j \in StateErrors(validation.val.errors) :
       validation.val.errors[j].idx < Len(labels)
  /\ \E j \in StateErrors(validation.val.errors) :
       validation.val.errors[j].idx = Len(labels)

\* ----------------------------------------------------------------------- C38
\* C38: for every scheme, when a label sequence gets no error from
\* validate_labels and decode_labels returns, the positions inside the decoded
\* mentions are exactly the positions whose label is not outside, and every
\* label inside a mention's span has the type of that mention.
C38_DecodePreservesCoverageAndType ==
  (pc = "decoded" /\ ValidationErrors(encoding, labels) = Ok(<<>>) /\ decoded.exc = "none")
    => /\ \A i \in 1..Len(labels) :
            (labels[i] /= DialectOf(encoding).outside)
              <=> \E k \in 1..Len(decoded.val) :
                    decoded.val[k].start < i /\ i <= decoded.val[k].end
       /\ \A k \in 1..Len(decoded.val) :
            \A i \in (decoded.val[k].start + 1)..decoded.val[k].end :
              /\ i <= Len(labels)
              /\ TypeOf(encoding, labels[i]) = decoded.val[k].type

\* A valid sequence with two mentions of different types and an outside
\* label was decoded.
C38_Witness ==
  /\ pc = "decoded"
  /\ ValidationErrors(encoding, labels) = Ok(<<>>)
  /\ decoded.exc = "none"
  /\ Len(decoded.val) = 2
  /\ decoded.val[1].type /= decoded.val[2].type
  /\ \E i \in 1..Len(labels) : labels[i] = DialectOf(encoding).outside
====
